---- MODULE Spec2Model ----
(***************************************************************************)
(* Model of the Confluence-to-VuePress migrator (lib migrator, 932 lines). *)
(*                                                                         *)
(* Text is modelled as TLA+ strings, i.e. sequences of characters; every   *)
(* regular expression of the source is translated character by character  *)
(* into a scanning operator (leftmost match, non-overlapping, global).     *)
(*                                                                         *)
(* The specifications of the module:                                       *)
(*   SpecProtect  the Text-Protection steps of convertToMarkdown, one      *)
(*                action per step, over bounded Markdown inputs;           *)
(*   Spec         migrate(): the page traversal, page emission and the     *)
(*                second pass of fixConfluenceLinks over a bounded site;   *)
(*   SpecNormalize  convertToMarkdown on one document: the rule groups of  *)
(*                preprocessConfluenceHtml, one action per group, then the *)
(*                conversion, the attachment links and Text-Protection;    *)
(*   SpecUtility  the utilities slugify and sanitizeFilename, applied to   *)
(*                bounded texts;                                           *)
(*   SpecCopy     copyMissingAttachments on one page, one action per wait  *)
(*                on the file system; FairSpecCopy resumes every wait;     *)
(*   SpecFix      fixConfluenceLinks run twice over the files of a         *)
(*                completed page map.                                      *)
(***************************************************************************)
EXTENDS Integers, Sequences, FiniteSets, TLC

\* ------------------------------------------------------------------------
\* Bounds of the model
\* ------------------------------------------------------------------------
\* number of chunks concatenated into one Markdown input
MaxChunks == 3

\* the largest number of pages of a Confluence site
MaxPages == 2

\* number of pages of a site whose pages have no links
MaxTreePages == 3

\* the largest number of constructs of a document given to the normalizer
MaxConstructs == 2

\* the largest length of a text given to slugify and sanitizeFilename
MaxTextLen == 3

\* the largest number of ancestor folders of the page given to
\* copyMissingAttachments
MaxDepth == 2

\* number of chunks of the text of a file given to fixConfluenceLinks
MaxFixChunks == 3

\* ------------------------------------------------------------------------
\* Characters and strings
\* ------------------------------------------------------------------------
UpperChars == "ABCDEFGHIJKLMNOPQRSTUVWXYZ"
LowerChars == "abcdefghijklmnopqrstuvwxyz"
DigitChars == "0123456789"

\* the characters a..b of s, clamped to the string (String.prototype.substring)
Sub(s, a, b) ==
  LET lo == IF a < 1 THEN 1 ELSE a
      hi == IF b > Len(s) THEN Len(s) ELSE b
  IN IF lo > hi THEN "" ELSE SubSeq(s, lo, hi)

\* the character at position i, the empty string outside the string
Ch(s, i) == Sub(s, i, i)

\* the backtick character and the three-backtick fence
BT == SubSeq("`'", 1, 1)
FENCE == BT \o BT \o BT

CharsOf(s) == {SubSeq(s, k, k) : k \in 1..Len(s)}

UpperSet == CharsOf(UpperChars)
LowerSet == CharsOf(LowerChars)
DigitSet == CharsOf(DigitChars)

IsUpper(c) == c \in UpperSet
IsLower(c) == c \in LowerSet
IsDigit(c) == c \in DigitSet
IsLetter(c) == IsUpper(c) \/ IsLower(c)
\* \s of the regular expressions, restricted to the whitespace of the model
IsSpace(c) == c \in {" ", "\n", "\t"}

\* the lower-case letter of each upper-case letter
LowerOf ==
  [c \in UpperSet |->
     LET k == CHOOSE n \in 1..26 : SubSeq(UpperChars, n, n) = c IN SubSeq(LowerChars, k, k)]

ToLowerChar(c) == IF IsUpper(c) THEN LowerOf[c] ELSE c

RECURSIVE ToLowerCase(_)
ToLowerCase(s) ==
  IF s = "" THEN "" ELSE ToLowerChar(Head(s)) \o ToLowerCase(Tail(s))

RECURSIVE Repeat(_, _)
Repeat(s, n) == IF n <= 0 THEN "" ELSE s \o Repeat(s, n - 1)

\* literal at position i
At(s, i, lit) ==
  /\ i >= 1
  /\ i + Len(lit) - 1 <= Len(s)
  /\ Sub(s, i, i + Len(lit) - 1) = lit

\* literal at position i under the i flag
AtCI(s, i, lit) ==
  /\ i >= 1
  /\ i + Len(lit) - 1 <= Len(s)
  /\ \A k \in 1..Len(lit) : ToLowerChar(Ch(s, i + k - 1)) = ToLowerChar(Ch(lit, k))

Min(S) == CHOOSE x \in S : \A y \in S : x <= y

Range(f) == {f[k] : k \in DOMAIN f}

Max(S) == CHOOSE x \in S : \A y \in S : x >= y

\* first position >= i where lit occurs, 0 when there is none (searched
\* sixteen positions at a time)
RECURSIVE IndexOf(_, _, _)
IndexOf(s, lit, i) ==
  IF i > Len(s) THEN 0
  ELSE LET hits == {k \in i..(i + 15) : At(s, k, lit)}
       IN IF hits # {} THEN Min(hits) ELSE IndexOf(s, lit, i + 16)

RECURSIVE IndexOfCI(_, _, _)
IndexOfCI(s, lit, i) ==
  IF i > Len(s) THEN 0
  ELSE LET hits == {k \in i..(i + 15) : AtCI(s, k, lit)}
       IN IF hits # {} THEN Min(hits) ELSE IndexOfCI(s, lit, i + 16)

Contains(s, lit) == IndexOf(s, lit, 1) > 0

\* the number of occurrences of lit in s
Count(s, lit) == Cardinality({k \in 1..Len(s) : At(s, k, lit)})

RECURSIVE JoinWith(_, _)
JoinWith(parts, sep) ==
  IF parts = <<>> THEN ""
  ELSE IF Len(parts) = 1 THEN parts[1]
  ELSE parts[1] \o sep \o JoinWith(Tail(parts), sep)

EndsWith(s, suffix) ==
  Len(s) >= Len(suffix) /\ Sub(s, Len(s) - Len(suffix) + 1, Len(s)) = suffix

\* String(n) for a non-negative integer
RECURSIVE NumToString(_)
NumToString(n) ==
  IF n < 10 THEN Ch(DigitChars, n + 1)
  ELSE NumToString(n \div 10) \o Ch(DigitChars, (n % 10) + 1)

\* ------------------------------------------------------------------------
\* String.prototype.replace(stringPattern, stringReplacement): first
\* occurrence only, and the replacement patterns $$, $&, $BT and $' of the
\* replacement string are expanded
\* ------------------------------------------------------------------------
RECURSIVE GetSubstitution(_, _, _, _)
\* the expansion of repl whose first "$" is at position d, 0 when it has none
SubstitutionFrom(repl, d, matched, before, after) ==
  IF d = 0 THEN repl
  ELSE IF Ch(repl, d + 1) \in {"$", "&", BT, "'"}
       THEN Sub(repl, 1, d - 1)
              \o (CASE Ch(repl, d + 1) = "$" -> "$"
                    [] Ch(repl, d + 1) = "&" -> matched
                    [] Ch(repl, d + 1) = BT -> before
                    [] Ch(repl, d + 1) = "'" -> after)
              \o GetSubstitution(Sub(repl, d + 2, Len(repl)), matched, before, after)
       ELSE Sub(repl, 1, d)
              \o GetSubstitution(Sub(repl, d + 1, Len(repl)), matched, before, after)

GetSubstitution(repl, matched, before, after) ==
  SubstitutionFrom(repl, IndexOf(repl, "$", 1), matched, before, after)

ReplaceFirst(s, pat, repl) ==
  LET p == IndexOf(s, pat, 1)
  IN IF p = 0 THEN s
     ELSE LET before == Sub(s, 1, p - 1)
              after == Sub(s, p + Len(pat), Len(s))
          IN before \o GetSubstitution(repl, pat, before, after) \o after


\* ------------------------------------------------------------------------
\* convertToMarkdown, the steps after the HTML-to-Markdown conversion
\* ------------------------------------------------------------------------
\* the replacement BT $1 BT, where group 1 is the whole match
WrapInBackticks(m) == BT \o m \o BT

\* the suffix alternation of the component pattern
VueSuffixes ==
  {"Reference", "Type", "Entity", "Value", "Field", "Collection", "Model",
   "Rule", "Filter", "Event", "Command", "Parameter", "Binding", "Element",
   "Container", "Unit", "IU", "AIU", "CUI"}

AllLetters(s) == \A k \in 1..Len(s) : IsLetter(Ch(s, k))

\* variant of the component pattern whose first character class is [a-zA-Z]
VueNameMatches_AnyFirstLetter(name) ==
  /\ Len(name) >= 1
  /\ AllLetters(name)

\* [A-Z][a-zA-Z]*(?:Reference|...|CUI)?  against a whole name
VueNameMatches(name) ==
  /\ Len(name) >= 1
  /\ IsUpper(Ch(name, 1))
  /\ \E j \in 1..Len(name) :
       /\ AllLetters(Sub(name, 2, j))
       /\ Sub(name, j + 1, Len(name)) \in VueSuffixes \cup {""}

\* /<([A-Z][a-zA-Z]*(?:...)?)>/g
VueComponentEnd(s, i) ==
  IF Ch(s, i) # "<" THEN 0
  ELSE LET k == IndexOf(s, ">", i + 1)
       IN IF k > 0 /\ VueNameMatches(Sub(s, i + 1, k - 1)) THEN k ELSE 0

\* FENCE [\s\S]*? FENCE, global
CodeBlockEnd(s, i) ==
  IF Ch(s, i) # BT \/ ~At(s, i, FENCE) THEN 0
  ELSE LET j == IndexOf(s, FENCE, i + 3)
       IN IF j > 0 THEN j + 2 ELSE 0

CodeBlockToken(k) == "__CODE_BLOCK_" \o NumToString(k) \o "__"

\* /<table[\s\S]*?<\/table>/gi
TableEnd(s, i) ==
  IF Ch(s, i) # "<" \/ ~AtCI(s, i, "<table") THEN 0
  ELSE LET j == IndexOfCI(s, "</table>", i + 6)
       IN IF j > 0 THEN j + 7 ELSE 0

TableToken(k) == "__TABLE_" \o NumToString(k) \o "__"

htmlTagNames ==
  {"div", "span", "form", "input", "button", "select", "textarea", "label",
   "ul", "ol", "li", "p", "br", "img", "dl", "dt", "dd", "a", "hr",
   "header", "footer", "section", "aside", "nav", "article", "main",
   "figure", "figcaption", "h1", "h2", "h3", "h4", "h5", "h6"}

\* the opening-tag pattern without its negative lookahead
OpeningTagEnd_NoLookahead(s, i) ==
  IF Ch(s, i) # "<" THEN 0
  ELSE LET EndFor(name) ==
             LET k == i + 1 + Len(name)
             IN IF Ch(s, k) = ">" THEN k
                ELSE IF IsSpace(Ch(s, k)) THEN IndexOf(s, ">", k + 1)
                ELSE 0
           ends == {EndFor(name) : name \in {n \in htmlTagNames : AtCI(s, i + 1, n)}} \ {0}
       IN IF ends # {} THEN Min(ends) ELSE 0

\* < name, then > or whitespace and everything up to the next >, not
\* followed by a backtick (negative lookahead); flags gi
OpeningTagEnd(s, i) ==
  IF Ch(s, i) # "<" THEN 0
  ELSE LET EndFor(name) ==
             LET k == i + 1 + Len(name)
             IN IF Ch(s, k) = ">" THEN k
                ELSE IF IsSpace(Ch(s, k)) THEN IndexOf(s, ">", k + 1)
                ELSE 0
           ends == {EndFor(name) : name \in {n \in htmlTagNames : AtCI(s, i + 1, n)}} \ {0}
       IN IF ends # {} /\ Ch(s, Min(ends) + 1) # BT THEN Min(ends) ELSE 0

\* </ name >, not followed by a backtick (negative lookahead); flags gi
ClosingTagEnd(s, i) ==
  IF Ch(s, i) # "<" \/ ~At(s, i, "</") THEN 0
  ELSE LET EndFor(name) ==
             LET k == i + 2 + Len(name)
             IN IF Ch(s, k) = ">" THEN k ELSE 0
           ends == {EndFor(name) : name \in {n \in htmlTagNames : AtCI(s, i + 2, n)}} \ {0}
       IN IF ends # {} /\ Ch(s, Min(ends) + 1) # BT THEN Min(ends) ELSE 0

\* ------------------------------------------------------------------------
\* slugify, and the same expression written inline in the page-link rules
\* ------------------------------------------------------------------------
\* .replace(/[^a-z0-9]+/g, '-'): every maximal run of characters other than
\* a-z and 0-9 becomes one hyphen
RECURSIVE ReplaceNonAlnumRuns(_, _, _)
ReplaceNonAlnumRuns(s, k, inRun) ==
  IF k > Len(s) THEN ""
  ELSE LET c == Ch(s, k)
       IN IF IsLower(c) \/ IsDigit(c)
          THEN c \o ReplaceNonAlnumRuns(s, k + 1, FALSE)
          ELSE (IF inRun THEN "" ELSE "-") \o ReplaceNonAlnumRuns(s, k + 1, TRUE)

\* one hyphen off the start only
TrimHyphens_StartOnly(s) == IF Ch(s, 1) = "-" THEN Sub(s, 2, Len(s)) ELSE s

\* .replace(/^-|-$/g, ''): one hyphen off the start and one off the end
TrimHyphens(s) ==
  LET a == IF Ch(s, 1) = "-" THEN Sub(s, 2, Len(s)) ELSE s
  IN IF Len(a) > 0 /\ Ch(a, Len(a)) = "-" THEN Sub(a, 1, Len(a) - 1) ELSE a

\* function slugify(text)
slugify(text) ==
  TrimHyphens(ReplaceNonAlnumRuns(ToLowerCase(text), 1, FALSE))

\* the slug of the page-link callbacks without toLowerCase()
linkSlug_KeepCase(pageTitle) ==
  TrimHyphens(ReplaceNonAlnumRuns(pageTitle, 1, FALSE))

\* const slug = pageTitle.toLowerCase().replace(...).replace(...) of the
\* three page-link callbacks
linkSlug(pageTitle) ==
  TrimHyphens(ReplaceNonAlnumRuns(ToLowerCase(pageTitle), 1, FALSE))

\* ------------------------------------------------------------------------
\* Paths (POSIX): split, filter(Boolean), join, path.join
\* ------------------------------------------------------------------------
\* s.split('/')
RECURSIVE Split(_, _)
Split(s, from) ==
  LET j == IndexOf(s, "/", from)
  IN IF j = 0 THEN <<Sub(s, from, Len(s))>>
     ELSE <<Sub(s, from, j - 1)>> \o Split(s, j + 1)

IsNonEmpty(x) == x # ""

\* s.split('/').filter(Boolean)
Parts(s) == SelectSeq(Split(s, 1), IsNonEmpty)

\* parts.join('/')
RECURSIVE Join(_)
Join(parts) ==
  IF parts = <<>> THEN ""
  ELSE IF Len(parts) = 1 THEN parts[1]
  ELSE parts[1] \o "/" \o Join(Tail(parts))

IsRealSegment(x) == x # "" /\ x # "."

RECURSIVE SegmentsOf(_)
SegmentsOf(args) ==
  IF args = <<>> THEN <<>>
  ELSE SelectSeq(Split(Head(args), 1), IsRealSegment) \o SegmentsOf(Tail(args))

\* path.join(...args) for relative arguments without '..' and without a
\* trailing separator: the segments of all arguments, empty and '.' segments
\* dropped, joined by '/', and '.' when nothing is left
PathJoin(args) ==
  LET segs == SegmentsOf(args)
  IN IF segs = <<>> THEN "." ELSE Join(segs)

\* lines 643-646: the page's path relative to the output directory, with a
\* trailing '/'
PagePath(parentPath, pageSlug) ==
  LET relativePath == PathJoin(<<parentPath, pageSlug>>)
  IN IF EndsWith(relativePath, "/") THEN relativePath ELSE relativePath \o "/"

\* ------------------------------------------------------------------------
\* preprocessConfluenceHtml: the three page-link rules (flags gi)
\*   <ac:link[^>]*>[\s\S]*?<ri:page\s+ri:content-title="([^"]+)"[^>]*\/>
\*     [\s\S]*?  BODY  [\s\S]*?<\/ac:link>
\* Each operator below matches one part of the expression from a given
\* position and yields a position, 0 when that part does not match.
\* A lazy [\s\S]*? followed by a part P stops at the first position where P
\* and the rest of the expression match; the rest only looks further to the
\* right, so that position is the first one where P itself matches.
\* ------------------------------------------------------------------------
MinOrZero(S) == IF S = {} THEN 0 ELSE Min(S)

RECURSIVE SkipSpaces(_, _)
SkipSpaces(s, k) == IF IsSpace(Ch(s, k)) THEN SkipSpaces(s, k + 1) ELSE k

\* <ac:link[^>]*> starting at i: the position of its '>'
LinkOpenEnd(s, i) ==
  IF Ch(s, i) = "<" /\ AtCI(s, i, "<ac:link") THEN IndexOf(s, ">", i + 8) ELSE 0

\* ri:content-title=" at w: the first position of the title
RiTitleAttr(s, w) == IF AtCI(s, w, "ri:content-title=\"") THEN w + 18 ELSE 0

\* <ri:page\s+ri:content-title=" at p: the first position of the title
RiTitleStart(s, p) ==
  IF Ch(s, p) = "<" /\ AtCI(s, p, "<ri:page") /\ IsSpace(Ch(s, p + 8))
  THEN RiTitleAttr(s, SkipSpaces(s, p + 8))
  ELSE 0

\* ([^"]+)" from the first position ts of the title: the position of the
\* closing quote
RiTitleQuote(s, ts) ==
  IF ts = 0 \/ Ch(s, ts) = "\"" THEN 0 ELSE IndexOf(s, "\"", ts + 1)

\* the '>' at gt closes the tag as '/>'
SlashClosed(s, gt) == IF gt > 0 /\ Ch(s, gt - 1) = "/" THEN gt ELSE 0

\* [^>]*\/> after the closing quote at tq: the position of the '>'
RiPageClose(s, tq) ==
  IF tq = 0 THEN 0 ELSE SlashClosed(s, IndexOf(s, ">", tq + 1))

\* the whole ri:page tag starting at p: the position of its '>'
RiPageAt(s, p) == RiPageClose(s, RiTitleQuote(s, RiTitleStart(s, p)))

\* the first position >= from where an ri:page tag matches
FirstRiPage(s, from) == MinOrZero({k \in from..Len(s) : RiPageAt(s, k) > 0})

\* <\/ac:link-body> at x, the first '<' after the opening tag
RichBodyClose(s, x) ==
  IF x > 0 /\ AtCI(s, x, "</ac:link-body>") THEN x + 14 ELSE 0

\* <ac:link-body>([^<]*)<\/ac:link-body> starting at b: its last position
RichBodyAt(s, b) ==
  IF Ch(s, b) = "<" /\ AtCI(s, b, "<ac:link-body>")
  THEN RichBodyClose(s, IndexOf(s, "<", b + 14))
  ELSE 0

\* \]\]><\/ac:plain-text-link-body> at x, the first ']' after the opening
PlainBodyClose(s, b, x) ==
  IF x > b + 34 /\ AtCI(s, x, "]]></ac:plain-text-link-body>") THEN x + 28 ELSE 0

\* <ac:plain-text-link-body><!\[CDATA\[([^\]]+)\]\]><\/ac:plain-text-link-body>
\* starting at b: its last position
PlainBodyAt(s, b) ==
  IF Ch(s, b) = "<" /\ AtCI(s, b, "<ac:plain-text-link-body><![CDATA[")
  THEN PlainBodyClose(s, b, IndexOf(s, "]", b + 34))
  ELSE 0

\* the body of the rule kind ("linkRich": Format 1, "linkPlain": Format 2)
BodyAt(kind, s, b) ==
  IF b = 0 THEN 0
  ELSE IF kind = "linkRich" THEN RichBodyAt(s, b)
  ELSE PlainBodyAt(s, b)

\* the first position >= from where the body of the rule matches
FirstBody(kind, s, from) == MinOrZero({k \in from..Len(s) : BodyAt(kind, s, k) > 0})

\* the ri:page tag of the link that starts at i: its first position
RiPageAfter(s, g) == IF g = 0 THEN 0 ELSE FirstRiPage(s, g + 1)

LinkRiPage(s, i) == RiPageAfter(s, LinkOpenEnd(s, i))

\* the body of the link whose ri:page tag starts at p: its first position
LinkBody(kind, s, p) ==
  IF p = 0 THEN 0 ELSE FirstBody(kind, s, RiPageAt(s, p) + 1)

\* [\s\S]*?<\/ac:link> after position e: the last position of the closing tag
PlusIfFound(c, n) == IF c > 0 THEN c + n ELSE 0

LinkClose(s, e) ==
  IF e = 0 THEN 0 ELSE PlusIfFound(IndexOfCI(s, "</ac:link>", e + 1), 9)

\* the last position of the match of a page-link rule that starts at i
\* ("linkBare": Format 3, no body part)
LinkEnd(kind, s, i) ==
  IF kind = "linkBare"
  THEN LinkClose(s, RiPageAt(s, LinkRiPage(s, i)))
  ELSE LinkClose(s, BodyAt(kind, s, LinkBody(kind, s, LinkRiPage(s, i))))

\* group 1 of a match: the page title
TitleFrom(s, ts) == Sub(s, ts, RiTitleQuote(s, ts) - 1)

LinkTitle(match) == TitleFrom(match, RiTitleStart(match, LinkRiPage(match, 1)))

\* group 2 of a match of Format 1 or Format 2: the link text
BodyText(kind, s, b) ==
  IF kind = "linkRich" THEN Sub(s, b + 14, RichBodyAt(s, b) - 15)
  ELSE Sub(s, b + 34, PlainBodyAt(s, b) - 29)

LinkText(kind, match) ==
  BodyText(kind, match, LinkBody(kind, match, LinkRiPage(match, 1)))

\* lines 194-195 and 203-204: the anchor with linkText || pageTitle
linkAnchor(pageTitle, linkText) ==
  "<a href=\"CONFLUENCE_LINK:" \o linkSlug(pageTitle) \o "\">"
    \o (IF linkText # "" THEN linkText ELSE pageTitle) \o "</a>"

\* lines 193-196 and 202-205: (match, pageTitle, linkText) => anchor
linkWithBody(kind, match) == linkAnchor(LinkTitle(match), LinkText(kind, match))

\* lines 212-213: the anchor with the page title as its text
titleAnchor(pageTitle) ==
  "<a href=\"CONFLUENCE_LINK:" \o linkSlug(pageTitle) \o "\">" \o pageTitle \o "</a>"

\* lines 211-214: (match, pageTitle) => anchor
linkWithoutBody(match) == titleAnchor(LinkTitle(match))

\* ------------------------------------------------------------------------
\* turndown(html), for documents of text and anchors: the inlined-link rule
\* turns <a href="H">T</a> with a non-empty H into [T](H)
\* ------------------------------------------------------------------------
\* <a href=" at i: the position of the quote that closes the href
AnchorHrefEnd(s, i) ==
  IF Ch(s, i) = "<" /\ At(s, i, "<a href=\"") THEN IndexOf(s, "\"", i + 9) ELSE 0

\* "> after the href and the content up to </a>: the position of </a>
AnchorClose(s, q) ==
  IF q > 0 /\ Ch(s, q + 1) = ">" THEN IndexOf(s, "</a>", q + 2) ELSE 0

AnchorEnd(s, i) == PlusIfFound(AnchorClose(s, AnchorHrefEnd(s, i)), 3)

mdLink(content, href) ==
  IF href = "" THEN content ELSE "[" \o content \o "](" \o href \o ")"

AnchorFrom(match, q) ==
  mdLink(Sub(match, q + 2, AnchorClose(match, q) - 1), Sub(match, 10, q - 1))

inlineLink(match) == AnchorFrom(match, AnchorHrefEnd(match, 1))

\* ------------------------------------------------------------------------
\* fixConfluenceLinks: the three patterns (flag g) and their callbacks
\* ------------------------------------------------------------------------
\* \[([^\]]+) starting at i: the position of the closing bracket
LinkTextClose(s, i) ==
  IF Ch(s, i) # "[" \/ Ch(s, i + 1) = "]" THEN 0 ELSE IndexOf(s, "]", i + 1)

\* \]\(CONFLUENCE_LINK: at j: the first position of the slug
PlaceholderSlugStart(s, j) ==
  IF j > 0 /\ At(s, j, "](CONFLUENCE_LINK:") THEN j + 18 ELSE 0

\* ([^)]+)\) from position ss: the position of the closing parenthesis
PlaceholderClose(s, ss) ==
  IF ss = 0 \/ Ch(s, ss) = ")" THEN 0 ELSE IndexOf(s, ")", ss + 1)

\* placeholderPattern /\[([^\]]+)\]\(CONFLUENCE_LINK:([^)]+)\)/g at i: the
\* last position of the match
PlaceholderEnd(s, i) ==
  PlaceholderClose(s, PlaceholderSlugStart(s, LinkTextClose(s, i)))

\* \]\( at j: the first position of the URL
UrlStart(s, j) == IF j > 0 /\ At(s, j, "](") THEN j + 2 ELSE 0

\* https?:\/\/ at u: the first position of the host
AfterScheme(s, u) ==
  IF At(s, u, "http://") THEN u + 7
  ELSE IF At(s, u, "https://") THEN u + 8
  ELSE 0

\* [^\/]+ from position h, then a '/': the position of that '/'
SegmentEnd(s, h) == IF Ch(s, h) = "/" THEN 0 ELSE IndexOf(s, "/", h + 1)

\* (?:https?:\/\/[^\/]+)? at u: the position where the rest of the URL
\* starts.  The rest starts with '/', so the group is taken exactly when the
\* text at u starts with a scheme.
AfterOrigin(s, u) ==
  IF u = 0 THEN 0
  ELSE IF AfterScheme(s, u) = 0 THEN u
  ELSE SegmentEnd(s, AfterScheme(s, u))

\* \/wiki\/spaces\/[^\/]+ at p: the position of the '/' after the space key
SpaceKeyEnd(s, p) ==
  IF p > 0 /\ At(s, p, "/wiki/spaces/") THEN SegmentEnd(s, p + 13) ELSE 0

\* \/pages\/ at k: the first position of the page id
PagesIdStart(s, k) == IF k > 0 /\ At(s, k, "/pages/") THEN k + 7 ELSE 0

\* \/wiki\/pages\/viewpage\.action\?pageId= at p: the first position of the id
ViewPageIdStart(s, p) ==
  IF p > 0 /\ At(s, p, "/wiki/pages/viewpage.action?pageId=") THEN p + 35 ELSE 0

\* the first position of the page id of the link that starts at i, for
\* confluenceUrlPattern (kind "spaceUrl") and viewPagePattern ("viewPage")
IdStart(kind, s, i) ==
  IF kind = "spaceUrl"
  THEN PagesIdStart(s, SpaceKeyEnd(s, AfterOrigin(s, UrlStart(s, LinkTextClose(s, i)))))
  ELSE ViewPageIdStart(s, AfterOrigin(s, UrlStart(s, LinkTextClose(s, i))))

RECURSIVE DigitsEnd(_, _)
DigitsEnd(s, k) == IF IsDigit(Ch(s, k)) THEN DigitsEnd(s, k + 1) ELSE k - 1

\* (\d+) from position ds: the last position of the id
IdEnd(s, ds) == IF ds = 0 \/ ~IsDigit(Ch(s, ds)) THEN 0 ELSE DigitsEnd(s, ds)

\* [^)]*\) after the id that ends at de: the position of the parenthesis
UrlClose(s, de) == IF de = 0 THEN 0 ELSE IndexOf(s, ")", de + 1)

\* the last position of the match of a URL pattern that starts at i
UrlEnd(kind, s, i) == UrlClose(s, IdEnd(s, IdStart(kind, s, i)))

\* the target-relative path of the two phase-2 callbacks, with one '../'
\* too few
RelativeLink_OneUpLess(currentPath, targetPath) ==
  Repeat("../", Len(Parts(currentPath)) - 1) \o Join(Parts(targetPath)) \o "/"

\* lines 846-849 and 863-866: '../' once per segment of the current page's
\* path, then the target's segments
RelativeLink(currentPath, targetPath) ==
  Repeat("../", Len(Parts(currentPath))) \o Join(Parts(targetPath)) \o "/"

\* lines 844-856: the body of the placeholder callback.  ctx holds the
\* variables the callback captures: slugToPath and pageInfo.path
resolvePlaceholder(linkText, targetSlug, ctx) ==
  IF targetSlug \in DOMAIN ctx.slugToPath
  THEN "[" \o linkText \o "]("
         \o RelativeLink(ctx.path, ctx.slugToPath[targetSlug]) \o ")"
  ELSE linkText

PlaceholderGroups(match, j, ctx) ==
  resolvePlaceholder(Sub(match, 2, j - 1), Sub(match, j + 18, Len(match) - 1), ctx)

\* line 843: (match, linkText, targetSlug) => ...
fixPlaceholder(match, ctx) == PlaceholderGroups(match, LinkTextClose(match, 1), ctx)

\* a fixUrlLink that treats an unknown page id like an unknown slug
resolveUrl_Demoting(match, linkText, targetPageId, ctx) ==
  IF targetPageId \in DOMAIN ctx.pageIdToPath
  THEN "[" \o linkText \o "]("
         \o RelativeLink(ctx.path, ctx.pageIdToPath[targetPageId]) \o ")"
  ELSE linkText

\* lines 861-871: the body of fixUrlLink
resolveUrl(match, linkText, targetPageId, ctx) ==
  IF targetPageId \in DOMAIN ctx.pageIdToPath
  THEN "[" \o linkText \o "]("
         \o RelativeLink(ctx.path, ctx.pageIdToPath[targetPageId]) \o ")"
  ELSE match

\* group 3 of a URL match: the page id
IdFrom(s, ds) == Sub(s, ds, IdEnd(s, ds))

UrlPageId(kind, match) == IdFrom(match, IdStart(kind, match, 1))

\* line 860: fixUrlLink = (match, linkText, fullUrl, targetPageId) => ...
fixUrlLink(kind, match, ctx) ==
  resolveUrl(match, Sub(match, 2, LinkTextClose(match, 1) - 1),
             UrlPageId(kind, match), ctx)

\* ------------------------------------------------------------------------
\* String.prototype.replace(/regex/g, replacement): the matches of a global
\* regular expression, scanned left to right without overlap.  Each pattern
\* has an operator XEnd(s, i): the last position of the match of X that
\* starts at position i, 0 when none starts there.
\* ------------------------------------------------------------------------
\* the element of a set of one element; the rules are applied to a string
\* that has been computed, as the statements of the code are
TheOnly(S) == CHOOSE r \in S : TRUE

\* of the pairs <<start, end>>, those of a match
Found(pairs) == {m \in pairs : m[2] > 0}

\* the matches <<first, last>> from position i on, leftmost first, each
\* search resuming after the previous match
RECURSIVE Scan(_, _)
Scan(found, i) ==
  LET rest == {m \in found : m[1] >= i}
  IN IF rest = {} THEN <<>>
     ELSE LET m == CHOOSE x \in rest : \A y \in rest : x[1] <= y[1]
          IN <<m>> \o Scan(found, m[2] + 1)

MatchText(s, m) == Sub(s, m[1], m[2])

\* the matched substrings, in order
Texts(s, ms) == [k \in 1..Len(ms) |-> MatchText(s, ms[k])]

\* s with the k-th match replaced by repls[k]
RECURSIVE Splice(_, _, _, _, _)
Splice(s, ms, repls, k, pos) ==
  IF k > Len(ms) THEN Sub(s, pos, Len(s))
  ELSE Sub(s, pos, ms[k][1] - 1) \o repls[k]
         \o Splice(s, ms, repls, k + 1, ms[k][2] + 1)

ReplaceMatches(s, ms, repls) == Splice(s, ms, repls, 1, 1)

\* the replacement BT $1 BT for every match
Wrapped(s, ms) ==
  ReplaceMatches(s, ms, [k \in 1..Len(ms) |-> WrapInBackticks(MatchText(s, ms[k]))])

\* lines 539-542
VueMatches(s) ==
  Scan(Found({<<k, VueComponentEnd(s, k)>> : k \in 1..Len(s)}), 1)

escapeVueComponents(md) == Wrapped(md, VueMatches(md))

\* lines 547-550: every fenced block becomes the token of its index
CodeBlockMatches(s) ==
  Scan(Found({<<k, CodeBlockEnd(s, k)>> : k \in 1..Len(s)}), 1)

CodeBlocksIn(md) == Texts(md, CodeBlockMatches(md))

CodeTokens(s, ms) ==
  ReplaceMatches(s, ms, [k \in 1..Len(ms) |-> CodeBlockToken(k - 1)])

protectCodeBlocks(md) == CodeTokens(md, CodeBlockMatches(md))

\* lines 554-557: every table becomes the token of its index
TableMatches(s) ==
  Scan(Found({<<k, TableEnd(s, k)>> : k \in 1..Len(s)}), 1)

TablesIn(md) == Texts(md, TableMatches(md))

TableTokens(s, ms) ==
  ReplaceMatches(s, ms, [k \in 1..Len(ms) |-> TableToken(k - 1)])

protectTables(md) == TableTokens(md, TableMatches(md))

\* lines 564-569
OpeningTagMatches(s) ==
  Scan(Found({<<k, OpeningTagEnd(s, k)>> : k \in 1..Len(s)}), 1)

escapeOpeningTags(md) == Wrapped(md, OpeningTagMatches(md))

\* lines 571-576
ClosingTagMatches(s) ==
  Scan(Found({<<k, ClosingTagEnd(s, k)>> : k \in 1..Len(s)}), 1)

escapeClosingTags(md) == Wrapped(md, ClosingTagMatches(md))

\* tablePlaceholders.forEach: replace the token of index i by table i
RECURSIVE RestoreTables(_, _, _)
RestoreTables(md, tables, k) ==
  IF k > Len(tables) THEN md
  ELSE RestoreTables(ReplaceFirst(md, TableToken(k - 1), tables[k]), tables, k + 1)

\* codeBlockPlaceholders.forEach: replace the token of index i by block i
RECURSIVE RestoreCodeBlocks(_, _, _)
RestoreCodeBlocks(md, blocks, k) ==
  IF k > Len(blocks) THEN md
  ELSE RestoreCodeBlocks(ReplaceFirst(md, CodeBlockToken(k - 1), blocks[k]), blocks, k + 1)

\* the bound of the escape loop: for (let i = 0; i < 3; i++)
EscapePasses == 3

\* for (i < 3) { before = markdown; opening; closing; if (markdown === before) break }
RECURSIVE EscapeLoop(_, _)
RECURSIVE EscapeLoopStep(_, _, _)
EscapeLoopStep(before, after, n) ==
  IF after = before THEN after ELSE EscapeLoop(after, n + 1)

EscapeLoop(md, n) ==
  IF n >= EscapePasses THEN md
  ELSE TheOnly({EscapeLoopStep(md, closed, n) :
         closed \in {escapeClosingTags(opened) :
           opened \in {escapeOpeningTags(md)}}})

\* lines 586-596: the tables, then the code blocks, are put back
RestoreAll(md, tables, blocks) ==
  TheOnly({RestoreCodeBlocks(restored, blocks, 1) :
    restored \in {RestoreTables(md, tables, 1)}})

\* lines 552-596, from the Markdown whose code blocks are tokens
ProtectedFromTables(md, blocks) ==
  TheOnly({RestoreAll(escaped, tables, blocks) :
    escaped \in {EscapeLoop(tokens, 0) : tokens \in {protectTables(md)}},
    tables \in {TablesIn(md)}})

\* lines 544-596, from the Markdown whose components are wrapped
ProtectedFromCode(md) ==
  TheOnly({ProtectedFromTables(tokens, blocks) :
    tokens \in {protectCodeBlocks(md)},
    blocks \in {CodeBlocksIn(md)}})

\* the whole of lines 538-596 as one function of the converted Markdown
TextProtection(md) ==
  TheOnly({ProtectedFromCode(wrapped) : wrapped \in {escapeVueComponents(md)}})

\* ------------------------------------------------------------------------
\* The page pipeline of processPage
\* ------------------------------------------------------------------------
LinkMatches(kind, s) ==
  Scan(Found({<<k, LinkEnd(kind, s, k)>> : k \in 1..Len(s)}), 1)

linkCallback(kind, match) ==
  IF kind = "linkBare" THEN linkWithoutBody(match) ELSE linkWithBody(kind, match)

LinksReplaced(kind, s, ms) ==
  ReplaceMatches(s, ms, [k \in 1..Len(ms) |-> linkCallback(kind, MatchText(s, ms[k]))])

\* html.replace(rule, callback) for one of the three page-link rules
convertLinks(kind, html) == LinksReplaced(kind, html, LinkMatches(kind, html))

\* ------------------------------------------------------------------------
\* preprocessConfluenceHtml: the rules ahead of the page links (flags gi).
\* A tag <name[^>]*> ends at the first '>' after its name; an attribute
\* value "[^"]*" ends at the first '"' after its opening quote.
\* ------------------------------------------------------------------------
\* none of the characters a..b of s is c
NoneIn(s, a, b, c) == \A k \in a..b : Ch(s, k) # c

\* <name[^>]*> starting at i: the position of its '>'
OpenTag(s, i, name) ==
  IF AtCI(s, i, "<" \o name) THEN IndexOf(s, ">", i + Len(name) + 1) ELSE 0

\* [\s\S]*?lit after position e: the last position of lit
CloseAfter(s, e, lit) ==
  IF e = 0 THEN 0 ELSE PlusIfFound(IndexOfCI(s, lit, e + 1), Len(lit) - 1)

\* <name[^>]*>[\s\S]*?</name> starting at i: the last position of the match
ElementEnd(s, i, name) ==
  CloseAfter(s, OpenTag(s, i, name), "</" \o name \o ">")

\* e when lit occurs in a..e-1, else 0
EndIfHas(s, a, e, lit) ==
  IF e > 0 /\ \E c \in a..(e - Len(lit)) : AtCI(s, c, lit) THEN e ELSE 0

\* <name[^>]*lit[^>]*> starting at i, for a literal without '>': the
\* position of its '>'
LitTag(s, i, name, lit) ==
  IF AtCI(s, i, "<" \o name)
  THEN EndIfHas(s, i + Len(name) + 1, IndexOf(s, ">", i + Len(name) + 1), lit)
  ELSE 0

\* word[^"]*"[^>]*> where the value that starts at v ends at the quote q:
\* the position of the '>', word anywhere in the value or at its start
ValueTagEnd(s, v, q, word, atStart) ==
  IF q > 0 /\ \E w \in v..(q - Len(word)) : (AtCI(s, w, word) /\ (atStart => w = v))
  THEN IndexOf(s, ">", q + 1)
  ELSE 0

\* attr"[^"]*word[^"]*"[^>]*> with attr" at c: the position of the '>'
AttrAt(s, c, attr, word, atStart) ==
  IF AtCI(s, c, attr)
  THEN ValueTagEnd(s, c + Len(attr), IndexOf(s, "\"", c + Len(attr)), word, atStart)
  ELSE 0

\* the positions a..g-1 ahead of the first '>' (all of them when there is none)
AheadOf(s, a, g) == a..(IF g = 0 THEN Len(s) ELSE g - 1)

\* the greedy [^>]* takes the last attr" that completes the tag
LastAttr(s, cs, attr, word, atStart) ==
  IF cs = {} THEN 0 ELSE AttrAt(s, Max(cs), attr, word, atStart)

AttrTagFrom(s, a, g, attr, word, atStart) ==
  LastAttr(s, {c \in AheadOf(s, a, g) : AttrAt(s, c, attr, word, atStart) > 0},
           attr, word, atStart)

\* <name[^>]*attr"[^"]*word[^"]*"[^>]*> starting at i (without the first
\* [^"]* when atStart): the position of its '>'
AttrTag(s, i, name, attr, word, atStart) ==
  IF AtCI(s, i, "<" \o name)
  THEN AttrTagFrom(s, i + Len(name) + 1, IndexOf(s, ">", i + Len(name) + 1),
                   attr, word, atStart)
  ELSE 0

\* html.replace(pattern, '')
Removed(s, ms) == ReplaceMatches(s, ms, [k \in 1..Len(ms) |-> ""])

\* line 74: /<svg[^>]*>[\s\S]*?<\/svg>/gi
SvgEnd(s, i) == ElementEnd(s, i, "svg")

removeSvg(html) ==
  Removed(html, Scan(Found({<<k, SvgEnd(html, k)>> : k \in 1..Len(html)}), 1))

\* line 77: <span[^>]*class="[^"]*heading-anchor-wrapper[^"]*"[^>]*>...</span>
AnchorWrapperEnd(s, i) ==
  CloseAfter(s, AttrTag(s, i, "span", "class=\"", "heading-anchor-wrapper", FALSE), "</span>")

removeAnchorWrappers(html) ==
  Removed(html, Scan(Found({<<k, AnchorWrapperEnd(html, k)>> : k \in 1..Len(html)}), 1))

\* line 78: <button[^>]*data-testid="anchor-button"[^>]*>...</button>
AnchorButtonEnd(s, i) ==
  CloseAfter(s, LitTag(s, i, "button", "data-testid=\"anchor-button\""), "</button>")

removeAnchorButtons(html) ==
  Removed(html, Scan(Found({<<k, AnchorButtonEnd(html, k)>> : k \in 1..Len(html)}), 1))

\* line 79: <span[^>]*data-testid="visually-hidden[^"]*"[^>]*>...</span>
VisuallyHiddenEnd(s, i) ==
  CloseAfter(s, AttrTag(s, i, "span", "data-testid=\"", "visually-hidden", TRUE), "</span>")

removeVisuallyHidden(html) ==
  Removed(html, Scan(Found({<<k, VisuallyHiddenEnd(html, k)>> : k \in 1..Len(html)}), 1))


\* lines 73-79: SVG elements and heading anchors are removed
removeDecorations(html) ==
  TheOnly({removeVisuallyHidden(c) :
             c \in {removeAnchorButtons(b) :
                      b \in {removeAnchorWrappers(a) : a \in {removeSvg(html)}}}})

\* ---- lines 52-71: blob images ------------------------------------------
\* Object.prototype, which the object literal fileIdMap = {} inherits from:
\* the inherited members and the text each one has inside a template string
ObjectPrototype ==
  [name \in {"constructor", "toString", "valueOf", "hasOwnProperty", "__proto__"} |->
     IF name = "__proto__" THEN "[object Object]"
     ELSE IF name = "constructor" THEN "function Object() { [native code] }"
     ELSE "function " \o name \o "() { [native code] }"]

\* fileId: attachment.extensions?.fileId || null (line 395)
Null == "null"

\* if (att.fileId): null and the empty string are skipped
HasFileId(att) == att.fileId # Null /\ att.fileId # ""

\* the records that set fileIdMap[fileId]; the assignment to __proto__ of
\* a string is ignored by the setter
Setters(attachments, fileId) ==
  {k \in 1..Len(attachments) :
     /\ HasFileId(attachments[k])
     /\ attachments[k].fileId = fileId
     /\ fileId # "__proto__"}

\* String(fileIdMap[fileId]) when the value is truthy, "" when it is
\* undefined or the empty string
FileIdLookup(attachments, fileId) ==
  IF Setters(attachments, fileId) # {}
  THEN attachments[Max(Setters(attachments, fileId))].path
  ELSE IF fileId \in DOMAIN ObjectPrototype THEN ObjectPrototype[fileId]
  ELSE ""

\* data-fileid="[^"]+"[^>]*> with the attribute at c: the position of '>'
FileIdClose(s, v, q) == IF q > v THEN IndexOf(s, ">", q + 1) ELSE 0

FileIdAt(s, c) ==
  IF AtCI(s, c, "data-fileid=\"")
  THEN FileIdClose(s, c + 13, IndexOf(s, "\"", c + 13))
  ELSE 0

\* the attribute the greedy [^>]* settles on: the last one that completes
FileIdAttr(s, a, g) == {c \in AheadOf(s, a, g) : FileIdAt(s, c) > 0}

BlobImageFrom(s, cs) == IF cs = {} THEN 0 ELSE FileIdAt(s, Max(cs))

\* /<img[^>]*data-fileid="([^"]+)"[^>]*>/gi starting at i
BlobImageEnd(s, i) ==
  IF AtCI(s, i, "<img")
  THEN BlobImageFrom(s, FileIdAttr(s, i + 4, IndexOf(s, ">", i + 4)))
  ELSE 0

\* the value of an attribute whose opening quote is at v - 1
ValueAt(s, v) == Sub(s, v, IndexOf(s, "\"", v) - 1)

\* $1 of the blob image rule
BlobFileId(match) ==
  ValueAt(match, Max(FileIdAttr(match, 5, IndexOf(match, ">", 5))) + 13)

\* match.match(/alt="([^"]*)"/): the first alt=" that has a closing quote
AltAttrs(match) ==
  {c \in 1..Len(match) : At(match, c, "alt=\"") /\ IndexOf(match, "\"", c + 5) > 0}

AltOf(match) ==
  IF AltAttrs(match) = {} THEN "image" ELSE ValueAt(match, Min(AltAttrs(match)) + 5)

ImgTag(src, alt) == "<img src=\"" \o src \o "\" alt=\"" \o alt \o "\" />"

\* lines 61-70: the callback of the blob image rule
blobImage(match, localPath) ==
  IF localPath # "" THEN ImgTag(localPath, AltOf(match)) ELSE match

BlobImageMatches(s) ==
  Scan(Found({<<k, BlobImageEnd(s, k)>> : k \in 1..Len(s)}), 1)

BlobImagesReplaced(s, ms, attachments) ==
  ReplaceMatches(s, ms,
    [k \in 1..Len(ms) |->
       blobImage(MatchText(s, ms[k]),
                 FileIdLookup(attachments, BlobFileId(MatchText(s, ms[k]))))])

convertBlobImages(html, attachments) ==
  BlobImagesReplaced(html, BlobImageMatches(html), attachments)

\* ---- lines 81-92: editor panels ----------------------------------------
UpperOf ==
  [c \in LowerSet |->
     LET k == CHOOSE n \in 1..26 : SubSeq(LowerChars, n, n) = c IN SubSeq(UpperChars, k, k)]

ToUpperChar(c) == IF IsLower(c) THEN UpperOf[c] ELSE c

RECURSIVE ToUpperCase(_)
ToUpperCase(s) ==
  IF s = "" THEN "" ELSE ToUpperChar(Head(s)) \o ToUpperCase(Tail(s))

\* data-panel-type="[^"]*"[^>]*> with the attribute at d: the position of '>'
PanelTypeAt(s, d) ==
  IF AtCI(s, d, "data-panel-type=\"")
  THEN CloseAfter(s, IndexOf(s, "\"", d + 17), ">")
  ELSE 0

\* [^>]*data-panel-type="..." after the class value that closes at q: the
\* last such attribute ahead of the next '>'
PanelTypeAttrs(s, q) ==
  {d \in AheadOf(s, q + 1, IndexOf(s, ">", q + 1)) : PanelTypeAt(s, d) > 0}

\* class="[^"]*ak-editor-panel[^"]*" at c: the position of the closing quote
PanelClassClose(s, v, q) ==
  IF q > 0 /\ \E w \in v..(q - 15) : AtCI(s, w, "ak-editor-panel") THEN q ELSE 0

PanelClassAt(s, c) ==
  IF AtCI(s, c, "class=\"")
  THEN PanelClassClose(s, c + 7, IndexOf(s, "\"", c + 7))
  ELSE 0

\* the class attributes of the tag at i that a panel type follows
PanelClasses(s, a, g) ==
  {c \in AheadOf(s, a, g) :
     PanelClassAt(s, c) > 0 /\ PanelTypeAttrs(s, PanelClassAt(s, c)) # {}}

\* the position of data-panel-type=" in the opening tag of the panel at i,
\* 0 when no panel starts at i
PanelTypeFrom(s, cs) ==
  IF cs = {} THEN 0 ELSE Max(PanelTypeAttrs(s, PanelClassAt(s, Max(cs))))

PanelTypeAttr(s, i) ==
  IF AtCI(s, i, "<div")
  THEN PanelTypeFrom(s, PanelClasses(s, i + 4, IndexOf(s, ">", i + 4)))
  ELSE 0

\* the '>' of the opening tag whose panel type attribute is at d
PanelOpenEnd(s, d) == IF d = 0 THEN 0 ELSE PanelTypeAt(s, d)

\* <div[^>]*class="[^"]*ak-editor-panel__content[^"]*"[^>]*> at k
PanelContentTag(s, k) ==
  AttrTag(s, k, "div", "class=\"", "ak-editor-panel__content", FALSE)

\* the first content tag after position e
PanelContentStart(s, e) ==
  IF e = 0 THEN 0
  ELSE MinOrZero({k \in (e + 1)..Len(s) : PanelContentTag(s, k) > 0})

\* <\/div>\s*<\/div> at p: the last position
DivCloseEnd(s, p) ==
  IF AtCI(s, p, "</div>") /\ AtCI(s, SkipSpaces(s, p + 6), "</div>")
  THEN SkipSpaces(s, p + 6) + 5
  ELSE 0

\* the first </div>\s*</div> after the content tag that ends at ce
PanelCloseStart(s, ce) ==
  IF ce = 0 THEN 0
  ELSE MinOrZero({p \in (ce + 1)..Len(s) : DivCloseEnd(s, p) > 0})

PanelContentEnd(s, k) == IF k = 0 THEN 0 ELSE PanelContentTag(s, k)

PanelEndFrom(s, p) == IF p = 0 THEN 0 ELSE DivCloseEnd(s, p)

\* the editor panel rule (line 84) starting at i: the last position
EditorPanelEnd(s, i) ==
  PanelEndFrom(s,
    PanelCloseStart(s,
      PanelContentEnd(s, PanelContentStart(s, PanelOpenEnd(s, PanelTypeAttr(s, i))))))

\* $1 and $2 of the editor panel rule
EditorPanelType(match) == ValueAt(match, PanelTypeAttr(match, 1) + 17)

EditorPanelContent(match) ==
  Sub(match,
      PanelContentEnd(match, PanelContentStart(match, PanelOpenEnd(match, PanelTypeAttr(match, 1)))) + 1,
      PanelCloseStart(match,
        PanelContentEnd(match, PanelContentStart(match, PanelOpenEnd(match, PanelTypeAttr(match, 1))))) - 1)

\* line 87: panelType ? '**' + panelType.toUpperCase() + ':** ' : ''
panelPrefix(panelType) ==
  IF panelType # "" THEN "**" \o ToUpperCase(panelType) \o ":** " ELSE ""

\* lines 86-88: the callback of the editor panel rule
editorPanel(match) ==
  "<blockquote>" \o panelPrefix(EditorPanelType(match)) \o EditorPanelContent(match)
    \o "</blockquote>"

EditorPanelMatches(s) ==
  Scan(Found({<<k, EditorPanelEnd(s, k)>> : k \in 1..Len(s)}), 1)

EditorPanelsReplaced(s, ms) ==
  ReplaceMatches(s, ms, [k \in 1..Len(ms) |-> editorPanel(MatchText(s, ms[k]))])

convertEditorPanels(html) == EditorPanelsReplaced(html, EditorPanelMatches(html))

\* line 92: <div[^>]*class="[^"]*ak-editor-panel__icon[^"]*"[^>]*>...</div>
PanelIconEnd(s, i) ==
  CloseAfter(s, AttrTag(s, i, "div", "class=\"", "ak-editor-panel__icon", FALSE), "</div>")

removePanelIcons(html) ==
  Removed(html, Scan(Found({<<k, PanelIconEnd(html, k)>> : k \in 1..Len(html)}), 1))

\* ---- line 95: loadable wrappers, '$1' -----------------------------------
LoadableEnd(s, i) ==
  CloseAfter(s, LitTag(s, i, "span", "data-loadable-vc-wrapper"), "</span>")

\* the content between the opening tag and the closing </span>
LoadableContent(match) == Sub(match, IndexOf(match, ">", 1) + 1, Len(match) - 7)

LoadableMatches(s) ==
  Scan(Found({<<k, LoadableEnd(s, k)>> : k \in 1..Len(s)}), 1)

LoadablesReplaced(s, ms) ==
  ReplaceMatches(s, ms, [k \in 1..Len(ms) |-> LoadableContent(MatchText(s, ms[k]))])

unwrapLoadables(html) == LoadablesReplaced(html, LoadableMatches(html))

\* ---- lines 97-114: image blocks ----------------------------------------
\* sanitizeFilename, lines 229-235: [<>:"/\|?*] become _, then each run of
\* whitespace becomes one _
UnsafeChars == {"<", ">", ":", "\"", "/", "\\", "|", "?", "*"}

RECURSIVE ReplaceUnsafe(_)
ReplaceUnsafe(s) ==
  IF s = "" THEN ""
  ELSE (IF Head(s) \in UnsafeChars THEN "_" ELSE Head(s)) \o ReplaceUnsafe(Tail(s))

RECURSIVE ReplaceSpaceRuns(_, _)
\* every whitespace character becomes one _
ReplaceSpaceRuns_EachSpace(s, inRun) ==
  IF s = "" THEN ""
  ELSE (IF IsSpace(Head(s)) THEN "_" ELSE Head(s)) \o ReplaceSpaceRuns(Tail(s), FALSE)

ReplaceSpaceRuns(s, inRun) ==
  IF s = "" THEN ""
  ELSE IF IsSpace(Head(s))
       THEN (IF inRun THEN "" ELSE "_") \o ReplaceSpaceRuns(Tail(s), TRUE)
       ELSE Head(s) \o ReplaceSpaceRuns(Tail(s), FALSE)

sanitizeFilename(filename) == ReplaceSpaceRuns(ReplaceUnsafe(filename), FALSE)

\* inner.match(/attr="([^"]+)"/): the positions where it matches
AttrHits(s, attr) ==
  {c \in 1..Len(s) : At(s, c, attr) /\ IndexOf(s, "\"", Len(attr) + c) > Len(attr) + c}

\* $1 of the first match
FirstAttr(s, attr) == ValueAt(s, Min(AttrHits(s, attr)) + Len(attr))

\* /<ac:image[^>]*>([\s\S]*?)<\/ac:image>/gi starting at i
ImageEnd(s, i) == ElementEnd(s, i, "ac:image")

\* $1: between the opening tag and </ac:image>
ImageInner(match) == Sub(match, IndexOf(match, ">", 1) + 1, Len(match) - 11)

localImage(pageSlug, safeFilename) ==
  ImgTag("./attachments/" \o pageSlug \o "/" \o safeFilename, safeFilename)

\* lines 100-113: the callback of the image rule on the inner markup
imageOf(match, inner, pageSlug) ==
  IF AttrHits(inner, "ri:filename=\"") # {}
  THEN localImage(pageSlug, sanitizeFilename(FirstAttr(inner, "ri:filename=\"")))
  ELSE IF AttrHits(inner, "ri:value=\"") # {}
  THEN ImgTag(FirstAttr(inner, "ri:value=\""), "external-image")
  ELSE match

convertImage(match, pageSlug) == imageOf(match, ImageInner(match), pageSlug)

ImageMatches(s) ==
  Scan(Found({<<k, ImageEnd(s, k)>> : k \in 1..Len(s)}), 1)

ImagesReplaced(s, ms, pageSlug) ==
  ReplaceMatches(s, ms, [k \in 1..Len(ms) |-> convertImage(MatchText(s, ms[k]), pageSlug)])

convertImages(html, pageSlug) == ImagesReplaced(html, ImageMatches(html), pageSlug)

\* ---- lines 116-124: structured-macro panels ----------------------------
PanelNames == {"info", "note", "warning", "tip"}

\* ac:name="(name)" at c for one of the names
NameAt(s, c, names) == \E n \in names : AtCI(s, c, "ac:name=\"" \o n \o "\"")

\* the ac:name attributes, of one of the names, in a..e-1
NamesIn(s, a, e, names) == {c \in a..(e - 1) : NameAt(s, c, names)}

MacroOpenFrom(s, a, e, names) ==
  IF e > 0 /\ NamesIn(s, a, e, names) # {} THEN e ELSE 0

\* <ac:structured-macro[^>]*ac:name="(names)"[^>]*> starting at i: the
\* position of its '>'
MacroOpen(s, i, names) ==
  IF AtCI(s, i, "<ac:structured-macro")
  THEN MacroOpenFrom(s, i + 20, IndexOf(s, ">", i + 20), names)
  ELSE 0

\* [\s\S]*?open([\s\S]*?)close after position e: the first position of
\* the capture, and the last position of close
CaptureStart(s, e, open) ==
  IF e = 0 THEN 0 ELSE PlusIfFound(IndexOfCI(s, open, e + 1), Len(open))

\* the capture that starts at b: the position after its last character
CaptureStop(s, b, close) ==
  IF b = 0 THEN 0 ELSE IndexOfCI(s, close, b)

\* the last position of close, found at p
AfterClose(p, close) == PlusIfFound(p, Len(close) - 1)

MacroClose(s, e) == CloseAfter(s, e, "</ac:structured-macro>")

RichBodyStart(s, e) == CaptureStart(s, e, "<ac:rich-text-body>")

RichBodyStop(s, e) == CaptureStop(s, RichBodyStart(s, e), "</ac:rich-text-body>")

\* the panel rule (line 119) starting at i: the last position
MacroPanelEnd(s, i) ==
  MacroClose(s, AfterClose(RichBodyStop(s, MacroOpen(s, i, PanelNames)),
                           "</ac:rich-text-body>"))

\* $1: the name the greedy [^>]* settles on, the last in the opening tag
MacroNameAt(s, c) == ValueAt(s, c + 9)

MacroPanelType(match) ==
  MacroNameAt(match, Max(NamesIn(match, 21, IndexOf(match, ">", 21), PanelNames)))

MacroPanelContent(match) ==
  Sub(match, RichBodyStart(match, IndexOf(match, ">", 21)),
             RichBodyStop(match, IndexOf(match, ">", 21)) - 1)

\* lines 121-123: the callback of the panel rule
macroPanel(match) ==
  "<blockquote>**" \o ToUpperCase(MacroPanelType(match)) \o ":** "
    \o MacroPanelContent(match) \o "</blockquote>"

MacroPanelMatches(s) ==
  Scan(Found({<<k, MacroPanelEnd(s, k)>> : k \in 1..Len(s)}), 1)

MacroPanelsReplaced(s, ms) ==
  ReplaceMatches(s, ms, [k \in 1..Len(ms) |-> macroPanel(MatchText(s, ms[k]))])

convertMacroPanels(html) == MacroPanelsReplaced(html, MacroPanelMatches(html))

\* ---- lines 126-151: code macros ----------------------------------------
RECURSIVE ReplaceChar(_, _, _)
ReplaceChar(s, c, repl) ==
  IF s = "" THEN ""
  ELSE (IF Head(s) = c THEN repl ELSE Head(s)) \o ReplaceChar(Tail(s), c, repl)

escapeHtml_AmpLast(code) ==
  ReplaceChar(ReplaceChar(ReplaceChar(code, "<", "&lt;"), ">", "&gt;"), "&", "&amp;")

\* lines 133-136: & first, then < and >
escapeHtml(code) ==
  ReplaceChar(ReplaceChar(ReplaceChar(code, "&", "&amp;"), "<", "&lt;"), ">", "&gt;")

\* lines 129-139
convertCodeBlock(codeContent, language) ==
  "<pre><code class=\"language-" \o language \o "\">"
    \o escapeHtml(ReplaceChar(codeContent, "\t", "\n")) \o "</code></pre>"

\* <ac:parameter[^>]*ac:name="language"[^>]*>([^<]*)<\/ac:parameter> at k:
\* the position of the '<' that ends the value
LanguageStop(s, e) ==
  IF e > 0 /\ AtCI(s, IndexOf(s, "<", e + 1), "</ac:parameter>")
  THEN IndexOf(s, "<", e + 1)
  ELSE 0

LanguageParamAt(s, k) ==
  LanguageStop(s, LitTag(s, k, "ac:parameter", "ac:name=\"language\""))

\* the first language parameter after position e
LanguageParam(s, e) ==
  IF e = 0 THEN 0
  ELSE MinOrZero({k \in (e + 1)..Len(s) : LanguageParamAt(s, k) > 0})

\* the last position of the language parameter that follows position e
LanguageEnd(s, k) == IF k = 0 THEN 0 ELSE LanguageParamAt(s, k) + 14

CDataOpen == "<ac:plain-text-body><![CDATA["
CDataClose == "]]></ac:plain-text-body>"

CodeBodyStart(s, e) == CaptureStart(s, e, CDataOpen)

CodeBodyStop(s, e) == CaptureStop(s, CodeBodyStart(s, e), CDataClose)

\* ...<ac:plain-text-body><![CDATA[(...)]]></ac:plain-text-body>...
\* </ac:structured-macro> after position e: the last position
CodeTail(s, e) == MacroClose(s, AfterClose(CodeBodyStop(s, e), CDataClose))

\* the rule with a language (line 142) starting at i: the last position
CodeWithLanguageEnd(s, i) ==
  CodeTail(s, LanguageEnd(s, LanguageParam(s, MacroOpen(s, i, {"code"}))))

\* the rule without a language (line 148) starting at i
CodeEnd(s, i) == CodeTail(s, MacroOpen(s, i, {"code"}))

\* $1 and $2 of the rule with a language
CodeLanguageFrom(match, k) ==
  Sub(match, LitTag(match, k, "ac:parameter", "ac:name=\"language\"") + 1,
      LanguageParamAt(match, k) - 1)

CodeLanguage(match) ==
  CodeLanguageFrom(match, LanguageParam(match, IndexOf(match, ">", 21)))

CodeBodyAfter(match, e) ==
  Sub(match, CodeBodyStart(match, e), CodeBodyStop(match, e) - 1)

CodeBodyWithLanguage(match) ==
  CodeBodyAfter(match, LanguageEnd(match, LanguageParam(match, IndexOf(match, ">", 21))))

\* $1 of the rule without a language
CodeBody(match) == CodeBodyAfter(match, IndexOf(match, ">", 21))

CodeWithLanguageMatches(s) ==
  Scan(Found({<<k, CodeWithLanguageEnd(s, k)>> : k \in 1..Len(s)}), 1)

CodeWithLanguageReplaced(s, ms) ==
  ReplaceMatches(s, ms,
    [k \in 1..Len(ms) |->
       convertCodeBlock(CodeBodyWithLanguage(MatchText(s, ms[k])),
                        CodeLanguage(MatchText(s, ms[k])))])

\* lines 141-145
convertCodeWithLanguage(html) ==
  CodeWithLanguageReplaced(html, CodeWithLanguageMatches(html))

CodeMatches(s) ==
  Scan(Found({<<k, CodeEnd(s, k)>> : k \in 1..Len(s)}), 1)

CodeReplaced(s, ms) ==
  ReplaceMatches(s, ms,
    [k \in 1..Len(ms) |-> convertCodeBlock(CodeBody(MatchText(s, ms[k])), "")])

\* lines 147-151
convertCodeWithoutLanguage(html) == CodeReplaced(html, CodeMatches(html))

\* ---- lines 153-166: the remaining macros --------------------------------
\* /<ac:structured-macro[^>]*\/>/gi starting at i
SelfClosingFrom(s, i, e) ==
  IF e > i + 20 /\ Ch(s, e - 1) = "/" THEN e ELSE 0

SelfClosingEnd(s, i) ==
  IF AtCI(s, i, "<ac:structured-macro")
  THEN SelfClosingFrom(s, i, IndexOf(s, ">", i + 20))
  ELSE 0

removeSelfClosingMacros(html) ==
  Removed(html, Scan(Found({<<k, SelfClosingEnd(html, k)>> : k \in 1..Len(html)}), 1))

\* /<ac:structured-macro[^>]*>[\s\S]*?<\/ac:structured-macro>/gi
MacroEnd(s, i) == ElementEnd(s, i, "ac:structured-macro")

\* match.match(/<img[^>]*>/gi)
ImgEnd(s, i) == OpenTag(s, i, "img")

ImgTags(match) ==
  Texts(match, Scan(Found({<<k, ImgEnd(match, k)>> : k \in 1..Len(match)}), 1))

\* imgTags.join('\n')
JoinLines(tags) == JoinWith(tags, "\n")

\* lines 159-163: the callback; match() gives null when there is no tag
keepImages(imgTags) == IF Len(imgTags) > 0 THEN JoinLines(imgTags) ELSE ""

MacroMatches(s) ==
  Scan(Found({<<k, MacroEnd(s, k)>> : k \in 1..Len(s)}), 1)

MacrosReplaced(s, ms) ==
  ReplaceMatches(s, ms, [k \in 1..Len(ms) |-> keepImages(ImgTags(MatchText(s, ms[k])))])

removeMacros(html) == MacrosReplaced(html, MacroMatches(html))

\* line 166: /<ac:parameter[^>]*>[\s\S]*?<\/ac:parameter>/gi
ParameterEnd(s, i) == ElementEnd(s, i, "ac:parameter")

removeParameters(html) ==
  Removed(html, Scan(Found({<<k, ParameterEnd(html, k)>> : k \in 1..Len(html)}), 1))

\* lines 153-166
removeResidualMacros(html) ==
  TheOnly({removeParameters(b) :
             b \in {removeMacros(a) : a \in {removeSelfClosingMacros(html)}}})

\* ---- lines 168-187: table cleanup ---------------------------------------
\* line 170: /<colgroup>[\s\S]*?<\/colgroup>/gi
ColgroupEnd(s, i) ==
  CloseAfter(s, IF AtCI(s, i, "<colgroup>") THEN i + 9 ELSE 0, "</colgroup>")

removeColgroups(html) ==
  Removed(html, Scan(Found({<<k, ColgroupEnd(html, k)>> : k \in 1..Len(html)}), 1))

\* line 172: /<table[^>]*>/gi becomes <table>
TableTagEnd(s, i) == OpenTag(s, i, "table")

TableTagMatches(s) ==
  Scan(Found({<<k, TableTagEnd(s, k)>> : k \in 1..Len(s)}), 1)

cleanTableTags(html) ==
  ReplaceMatches(html, TableTagMatches(html),
                 [k \in 1..Len(TableTagMatches(html)) |-> "<table>"])

\* <t[hd][^>]*> starting at i: the position of its '>'
CellOpen(s, i) ==
  IF AtCI(s, i, "<th") \/ AtCI(s, i, "<td") THEN IndexOf(s, ">", i + 3) ELSE 0

\* <p(?:\s[^>]*)?> starting at k: the position of its '>'
ParagraphOpen(s, k) ==
  IF ~AtCI(s, k, "<p") THEN 0
  ELSE IF Ch(s, k + 2) = ">" THEN k + 2
  ELSE IF IsSpace(Ch(s, k + 2)) THEN IndexOf(s, ">", k + 3)
  ELSE 0

\* \s*<p(?:\s[^>]*)?> after position e
SpacedParagraph(s, e) ==
  IF e = 0 THEN 0 ELSE ParagraphOpen(s, SkipSpaces(s, e + 1))

\* <\/t[hd]> at p
CellCloseAt(s, p) == AtCI(s, p, "</th>") \/ AtCI(s, p, "</td>")

\* <\/p>\s*(<\/t[hd]>) starting at p: the last position
ParagraphCellClose(s, p) ==
  IF AtCI(s, p, "</p>") /\ CellCloseAt(s, SkipSpaces(s, p + 4))
  THEN SkipSpaces(s, p + 4) + 4
  ELSE 0

\* the first </p>\s*</t[hd]> after the paragraph tag that ends at pe
CellParagraphStop(s, pe) ==
  IF pe = 0 THEN 0
  ELSE MinOrZero({p \in (pe + 1)..Len(s) : ParagraphCellClose(s, p) > 0})

CellParagraphFrom(s, p) == IF p = 0 THEN 0 ELSE ParagraphCellClose(s, p)

\* line 175: (<t[hd][^>]*>)\s*<p(?:\s[^>]*)?>([\s\S]*?)<\/p>\s*(<\/t[hd]>)
CellParagraphEnd(s, i) ==
  CellParagraphFrom(s, CellParagraphStop(s, SpacedParagraph(s, CellOpen(s, i))))

\* '$1$2$3'
cellParagraph(match) ==
  Sub(match, 1, CellOpen(match, 1))
    \o Sub(match, SpacedParagraph(match, CellOpen(match, 1)) + 1,
           CellParagraphStop(match, SpacedParagraph(match, CellOpen(match, 1))) - 1)
    \o Sub(match, Len(match) - 4, Len(match))

CellParagraphMatches(s) ==
  Scan(Found({<<k, CellParagraphEnd(s, k)>> : k \in 1..Len(s)}), 1)

CellParagraphsReplaced(s, ms) ==
  ReplaceMatches(s, ms, [k \in 1..Len(ms) |-> cellParagraph(MatchText(s, ms[k]))])

unwrapCellParagraphs(html) == CellParagraphsReplaced(html, CellParagraphMatches(html))

\* line 177: /<\/p>\s*<p(?:\s[^>]*)?>/gi becomes <br/>
ParagraphBreakEnd(s, i) ==
  IF AtCI(s, i, "</p>") THEN ParagraphOpen(s, SkipSpaces(s, i + 4)) ELSE 0

ParagraphBreakMatches(s) ==
  Scan(Found({<<k, ParagraphBreakEnd(s, k)>> : k \in 1..Len(s)}), 1)

breakParagraphs(html) ==
  ReplaceMatches(html, ParagraphBreakMatches(html),
                 [k \in 1..Len(ParagraphBreakMatches(html)) |-> "<br/>"])

\* line 179: /(<t[hd][^>]*>)\s*<p(?:\s[^>]*)?>/gi becomes $1
LeadingParagraphEnd(s, i) == SpacedParagraph(s, CellOpen(s, i))

LeadingParagraphMatches(s) ==
  Scan(Found({<<k, LeadingParagraphEnd(s, k)>> : k \in 1..Len(s)}), 1)

LeadingParagraphsReplaced(s, ms) ==
  ReplaceMatches(s, ms,
    [k \in 1..Len(ms) |-> Sub(MatchText(s, ms[k]), 1, CellOpen(MatchText(s, ms[k]), 1))])

dropLeadingParagraphs(html) ==
  LeadingParagraphsReplaced(html, LeadingParagraphMatches(html))

\* line 180: /<\/p>\s*(<\/t[hd]>)/gi becomes $1
TrailingParagraphMatches(s) ==
  Scan(Found({<<k, ParagraphCellClose(s, k)>> : k \in 1..Len(s)}), 1)

TrailingParagraphsReplaced(s, ms) ==
  ReplaceMatches(s, ms, [k \in 1..Len(ms) |-> Sub(s, ms[k][2] - 4, ms[k][2])])

dropTrailingParagraphs(html) ==
  TrailingParagraphsReplaced(html, TrailingParagraphMatches(html))

\* line 182: /<(th|td)\s+[^>]*>/gi becomes <$1>
CellAttrsEnd(s, i) ==
  IF (AtCI(s, i, "<th") \/ AtCI(s, i, "<td")) /\ IsSpace(Ch(s, i + 3))
  THEN IndexOf(s, ">", i + 4)
  ELSE 0

CellAttrsMatches(s) ==
  Scan(Found({<<k, CellAttrsEnd(s, k)>> : k \in 1..Len(s)}), 1)

CellAttrsReplaced(s, ms) ==
  ReplaceMatches(s, ms, [k \in 1..Len(ms) |-> "<" \o Sub(s, ms[k][1] + 1, ms[k][1] + 2) \o ">"])

cleanCellTags(html) == CellAttrsReplaced(html, CellAttrsMatches(html))

\* (?:\s*<th>[\s\S]*?<\/th>\s*)+<\/tr> from position x, after n cells: the
\* last position of </tr>. Another cell is tried first; the lazy content
\* of a cell ends at the first </th> from which the rest of the row matches.
RECURSIVE HeaderCells(_, _, _)
NextHeaderCell(s, x, ps) ==
  IF ps = {} THEN 0 ELSE HeaderCells(s, SkipSpaces(s, Min(ps) + 5), 1)

HeaderCell(s, x) ==
  IF AtCI(s, x, "<th>")
  THEN NextHeaderCell(s, x,
         {p \in (x + 4)..Len(s) :
            AtCI(s, p, "</th>") /\ HeaderCells(s, SkipSpaces(s, p + 5), 1) > 0})
  ELSE 0

RowCloseAt(s, x, n) == IF n >= 1 /\ AtCI(s, x, "</tr>") THEN x + 4 ELSE 0

FirstNonZero(a, b) == IF a > 0 THEN a ELSE b

HeaderCells(s, x, n) ==
  FirstNonZero(HeaderCell(s, SkipSpaces(s, x)), RowCloseAt(s, x, n))

\* \s*lit at position x: the position after lit
SpacedLiteral(s, x, lit) ==
  IF x > 0 /\ AtCI(s, SkipSpaces(s, x), lit) THEN SkipSpaces(s, x) + Len(lit) ELSE 0

\* the position after <table>\s*<tbody>\s*<tr> starting at i
HeaderRowStart(s, i) ==
  SpacedLiteral(s, SpacedLiteral(s, SpacedLiteral(s, i, "<table>"), "<tbody>"), "<tr>")

HeaderRowFrom(s, i, x) ==
  IF Ch(s, i) = "<" /\ x > 0 THEN HeaderCells(s, x, 0) ELSE 0

\* line 185: /<table>\s*<tbody>\s*(<tr>(?:\s*<th>[\s\S]*?<\/th>\s*)+<\/tr>)/gi
HeaderRowEnd(s, i) == HeaderRowFrom(s, i, HeaderRowStart(s, i))

\* '<table><thead>$1</thead><tbody>'
headerRow(match) ==
  "<table><thead>" \o Sub(match, HeaderRowStart(match, 1) - 4, Len(match))
    \o "</thead><tbody>"

HeaderRowMatches(s) ==
  Scan(Found({<<k, HeaderRowEnd(s, k)>> : k \in 1..Len(s)}), 1)

HeaderRowsReplaced(s, ms) ==
  ReplaceMatches(s, ms, [k \in 1..Len(ms) |-> headerRow(MatchText(s, ms[k]))])

\* lines 184-187
moveHeaderRows(html) == HeaderRowsReplaced(html, HeaderRowMatches(html))

\* lines 168-187
cleanTables(html) ==
  TheOnly({moveHeaderRows(g) :
    g \in {cleanCellTags(f) :
      f \in {dropTrailingParagraphs(e) :
        e \in {dropLeadingParagraphs(d) :
          d \in {breakParagraphs(c) :
            c \in {unwrapCellParagraphs(b) :
              b \in {cleanTableTags(a) : a \in {removeColgroups(html)}}}}}}}})

\* lines 81-92
normalizeEditorPanels(html) ==
  TheOnly({removePanelIcons(a) : a \in {convertEditorPanels(html)}})

\* lines 50-187, the rules ahead of the page links, in the order of the code
RulesToCode(html, pageSlug, attachments) ==
  TheOnly({convertMacroPanels(e) :
    e \in {convertImages(d, pageSlug) :
      d \in {unwrapLoadables(c) :
        c \in {normalizeEditorPanels(b) :
          b \in {removeDecorations(a) : a \in {convertBlobImages(html, attachments)}}}}}})

\* lines 126-187
RulesToTables(html) ==
  TheOnly({cleanTables(c) :
    c \in {removeResidualMacros(b) :
      b \in {convertCodeWithoutLanguage(a) : a \in {convertCodeWithLanguage(html)}}}})

\* preprocessConfluenceHtml, lines 189-215: the page-link rules, Format 1,
\* then Format 2, then Format 3
convertPageLinks(html) ==
  TheOnly({convertLinks("linkBare", b) :
    b \in {convertLinks("linkPlain", a) : a \in {convertLinks("linkRich", html)}}})

\* preprocessConfluenceHtml, lines 50-218
preprocessConfluenceHtml(html, pageSlug, attachments) ==
  TheOnly({convertPageLinks(t) :
             t \in {RulesToTables(c) : c \in {RulesToCode(html, pageSlug, attachments)}}})

AnchorMatches(s) ==
  Scan(Found({<<k, AnchorEnd(s, k)>> : k \in 1..Len(s)}), 1)

AnchorsReplaced(s, ms) ==
  ReplaceMatches(s, ms, [k \in 1..Len(ms) |-> inlineLink(MatchText(s, ms[k]))])

\* this.turndownService.turndown(html)
turndown(html) == AnchorsReplaced(html, AnchorMatches(html))

\* lines 530-596 of convertToMarkdown, for a page without attachments
\* (attachments.forEach at 533-536 has nothing to do)
convertNormalized(html) == TextProtection(turndown(html))

\* ------------------------------------------------------------------------
\* convertToMarkdown, lines 533-536: the download URLs of the attachments
\* ------------------------------------------------------------------------
SpecialChars == {".", "*", "+", "?", "^", "$", "{", "}", "(", ")", "|", "[", "]", "\\"}

\* escapeRegex, lines 247-249: string.replace(/[.*+?^${}()|[\]\\]/g, '\\$&')
RECURSIVE escapeRegex(_)
escapeRegex_Identity(string) == string

escapeRegex(string) ==
  IF string = "" THEN ""
  ELSE (IF Head(string) \in SpecialChars THEN "\\" ELSE "") \o Head(string)
         \o escapeRegex(Tail(string))

\* the special characters of a pattern that no backslash escapes
RECURSIVE UnescapedChars(_)
UnescapedChars(pattern) ==
  IF pattern = "" THEN ""
  ELSE IF Head(pattern) = "\\" THEN UnescapedChars(Sub(pattern, 3, Len(pattern)))
  ELSE (IF Head(pattern) \in SpecialChars THEN Head(pattern) ELSE "")
         \o UnescapedChars(Tail(pattern))

\* the text a pattern of escaped characters matches
RECURSIVE PatternLiteral(_)
PatternLiteral(pattern) ==
  IF pattern = "" THEN ""
  ELSE IF Head(pattern) = "\\"
       THEN Ch(pattern, 2) \o PatternLiteral(Sub(pattern, 3, Len(pattern)))
       ELSE Head(pattern) \o PatternLiteral(Tail(pattern))

\* new RegExp(pattern) throws a SyntaxError for a group or a class that is
\* not closed
RegExpThrows(pattern) ==
  \/ Count(UnescapedChars(pattern), "(") # Count(UnescapedChars(pattern), ")")
  \/ Count(UnescapedChars(pattern), "[") > Count(UnescapedChars(pattern), "]")

\* line 534: the source of the pattern after '/wiki/download/.*?/'
confluencePattern(att) == escapeRegex(att.original)

\* /\/wiki\/download\/.*?\/name/g starting at i: the last position; the
\* dot does not match a line break
DownloadStop(s, a, name) ==
  MinOrZero({p \in a..Len(s) : At(s, p, "/" \o name) /\ NoneIn(s, a, p - 1, "\n")})

DownloadEnd(s, i, name) ==
  IF At(s, i, "/wiki/download/")
  THEN PlusIfFound(DownloadStop(s, i + 15, name), Len(name))
  ELSE 0

DownloadMatches(s, name) ==
  Scan(Found({<<k, DownloadEnd(s, k, name)>> : k \in 1..Len(s)}), 1)

DownloadsReplaced(s, ms, path) ==
  ReplaceMatches(s, ms,
    [k \in 1..Len(ms) |->
       GetSubstitution(path, MatchText(s, ms[k]), Sub(s, 1, ms[k][1] - 1),
                       Sub(s, ms[k][2] + 1, Len(s)))])

\* line 535: markdown.replace(confluencePattern, att.path)
replaceDownloads(markdown, att) ==
  DownloadsReplaced(markdown,
                    DownloadMatches(markdown, PatternLiteral(confluencePattern(att))),
                    att.path)

\* attachments.forEach, lines 533-536, from the k-th record on
RECURSIVE replaceAttachmentUrls(_, _, _)
replaceAttachmentUrls(markdown, attachments, k) ==
  IF k > Len(attachments) THEN markdown
  ELSE replaceAttachmentUrls(replaceDownloads(markdown, attachments[k]), attachments, k + 1)

\* the loop throws when the constructor rejects a pattern
AttachmentLoopThrows(attachments) ==
  \E k \in 1..Len(attachments) : RegExpThrows(confluencePattern(attachments[k]))

\* lines 527-597
convertToMarkdown(html, attachments, pageSlug) ==
  TheOnly({TextProtection(replaceAttachmentUrls(turndown(normalized), attachments, 1)) :
             normalized \in {preprocessConfluenceHtml(html, pageSlug, attachments)}})

\* needsQuotes: the title holds a character of the YAML-special class
needsQuotes(pageTitle) ==
  \E k \in 1..Len(pageTitle) :
    Ch(pageTitle, k) \in {":", "[", "]", "{", "}", "&", "*", "#", "?", "|",
                          "-", "<", ">", "=", "!", "%", "@", BT}

\* pageTitle.replace(/"/g, '\\"')
RECURSIVE EscapeQuotes(_, _)
EscapeQuotes(s, k) ==
  IF k > Len(s) THEN ""
  ELSE (IF Ch(s, k) = "\"" THEN "\\\"" ELSE Ch(s, k)) \o EscapeQuotes(s, k + 1)

\* lines 627-636
frontmatter(pageTitle) ==
  LET yamlTitle == IF needsQuotes(pageTitle)
                   THEN "\"" \o EscapeQuotes(pageTitle, 1) \o "\""
                   ELSE pageTitle
  IN "---\ntitle: " \o yamlTitle \o "\n---\n\n# " \o pageTitle \o "\n\n"

\* ------------------------------------------------------------------------
\* The page map: a Map from page id to page info, in insertion order
\* ------------------------------------------------------------------------
MapHas(map, key) == \E k \in 1..Len(map) : map[k].id = key

MapIndex(map, key) == CHOOSE k \in 1..Len(map) : map[k].id = key

MapGet(map, key) == map[MapIndex(map, key)]

\* Map.prototype.set: a new key goes to the end, a known key keeps its place
MapSet(map, key, info) ==
  LET entry == [id |-> key, title |-> info.title, path |-> info.path,
                slug |-> info.slug, children |-> info.children]
  IN IF MapHas(map, key)
     THEN [map EXCEPT ![MapIndex(map, key)] = entry]
     ELSE Append(map, entry)

\* lines 810-814: slugToPath, the last page of each slug winning
BuildSlugToPath(map) ==
  [s \in {slugify(map[k].title) : k \in 1..Len(map)} |->
     map[Max({k \in 1..Len(map) : slugify(map[k].title) = s})].path]

\* lines 829-832: pageIdToPath
BuildPageIdToPath(map) ==
  [p \in {map[k].id : k \in 1..Len(map)} |-> MapGet(map, p).path]

PlaceholderMatches(s) ==
  Scan(Found({<<k, PlaceholderEnd(s, k)>> : k \in 1..Len(s)}), 1)

PlaceholdersReplaced(s, ms, ctx) ==
  ReplaceMatches(s, ms, [k \in 1..Len(ms) |-> fixPlaceholder(MatchText(s, ms[k]), ctx)])

\* lines 843-857: content.replace(placeholderPattern, callback)
fixPlaceholders(content, ctx) ==
  PlaceholdersReplaced(content, PlaceholderMatches(content), ctx)

UrlMatches(kind, s) ==
  Scan(Found({<<k, UrlEnd(kind, s, k)>> : k \in 1..Len(s)}), 1)

UrlsReplaced(kind, s, ms, ctx) ==
  ReplaceMatches(s, ms, [k \in 1..Len(ms) |-> fixUrlLink(kind, MatchText(s, ms[k]), ctx)])

\* lines 874-875: content.replace(pattern, fixUrlLink) for either URL pattern
fixUrls(kind, content, ctx) == UrlsReplaced(kind, content, UrlMatches(kind, content), ctx)

\* lines 843-875: the three replacements applied to the content of one file
FixContent(content, ctx) ==
  fixUrls("viewPage", fixUrls("spaceUrl", fixPlaceholders(content, ctx), ctx), ctx)

\* some match of the URL pattern in c names a known page id
KnownUrlIn(kind, c, ms, ctx) ==
  \E k \in 1..Len(ms) :
    UrlPageId(kind, MatchText(c, ms[k])) \in DOMAIN ctx.pageIdToPath

KnownUrl(kind, c, ctx) == KnownUrlIn(kind, c, UrlMatches(kind, c), ctx)

\* the flag modified of lines 840-872: set by every placeholder match and by
\* every URL match whose page id is known
Modified(content, ctx) ==
  \/ PlaceholderMatches(content) # <<>>
  \/ KnownUrl("spaceUrl", fixPlaceholders(content, ctx), ctx)
  \/ KnownUrl("viewPage", fixUrls("spaceUrl", fixPlaceholders(content, ctx), ctx), ctx)

\* ------------------------------------------------------------------------
\* Markdown inputs of the Text-Protection steps: concatenations of at most
\* MaxChunks chunks (a fence line, a backtick, plain and component-like
\* tags, table tags, text, a replacement pattern of String.replace, and
\* the start of a tag with attributes)
\* ------------------------------------------------------------------------
Chunks ==
  {"\n" \o FENCE \o "\n", BT, "<p>", "</p>", "<Type>", "<Foo>",
   "<table>", "</table>", "x", "$&", "<p "}

RECURSIVE Concat(_)
Concat(seq) == IF seq = <<>> THEN "" ELSE Head(seq) \o Concat(Tail(seq))

MarkdownInputs ==
  {Concat(seq) : seq \in UNION {[1..n -> Chunks] : n \in 0..MaxChunks}}

\* ------------------------------------------------------------------------
\* The inputs of a call of convertToMarkdown: a document of at most
\* MaxConstructs constructs of one kind, and the attachment records of the
\* page (downloadAttachments, lines 390-396)
\* ------------------------------------------------------------------------
StructuredMacro(name, inner) ==
  "<ac:structured-macro ac:name=\"" \o name \o "\">" \o inner \o "</ac:structured-macro>"

PlainTextBody(code) ==
  "<ac:plain-text-body><![CDATA[" \o code \o "]]></ac:plain-text-body>"

LanguageParameter(language) ==
  "<ac:parameter ac:name=\"language\">" \o language \o "</ac:parameter>"

RichTextBody(content) == "<ac:rich-text-body>" \o content \o "</ac:rich-text-body>"

EditorPanel(type, content) ==
  "<div class=\"ak-editor-panel\" data-panel-type=\"" \o type
    \o "\"><div class=\"ak-editor-panel__content\">" \o content \o "</div></div>"

PageLink(title, body) ==
  "<ac:link><ri:page ri:content-title=\"" \o title \o "\" />" \o body \o "</ac:link>"

PlainLinkBody(text) ==
  "<ac:plain-text-link-body><![CDATA[" \o text \o "]]></ac:plain-text-link-body>"

RichLinkBody(content) == "<ac:link-body>" \o content \o "</ac:link-body>"

ImageBlock(inner) == "<ac:image>" \o inner \o "</ac:image>"

HeaderRow == "<tr><th>H</th></tr>"
DataRow == "<tr><td>c</td></tr>"
MixedRow == "<tr><th>H</th><td>c</td><th>G</th></tr>"

TableOf(rows) == "<table><tbody>" \o rows \o "</tbody></table>"

\* image blocks: an attachment, an external image, neither
ImageBlocks ==
  {ImageBlock("<ri:attachment ri:filename=\"a b.png\" />"),
   ImageBlock("<ri:url ri:value=\"http://e/i.png\" />"),
   ImageBlock("")}

\* panels of both dialects: with and without a body, of a type among the
\* four, of another type, of the empty type
Panels ==
  {StructuredMacro("info", RichTextBody("Hi")), StructuredMacro("tip", ""),
   StructuredMacro("panel", RichTextBody("Pa")),
   EditorPanel("note", "No"), EditorPanel("error", "Er"), EditorPanel("", "Pl")}

\* code macros: with a language, without one, with the language after the body
CodeMacros ==
  {StructuredMacro("code", LanguageParameter("js") \o PlainTextBody("a<b>&\"c\"\t")),
   StructuredMacro("code", PlainTextBody("x && y")),
   StructuredMacro("code", PlainTextBody("&lt;") \o LanguageParameter("py"))}

\* page links: no body, a plain-text body, a rich body, a rich body with markup
PageLinks ==
  {PageLink("A B", ""), PageLink("T", PlainLinkBody("pl")),
   PageLink("R", RichLinkBody("ri")), PageLink("M", RichLinkBody("<b>x</b>"))}

\* other macros: self-closing, with images, with a macro nested between
\* images, and a parameter on its own
OtherMacros ==
  {"<ac:structured-macro ac:name=\"toc\" />",
   StructuredMacro("x", "<img src=\"1\" /><img src=\"2\" />"),
   StructuredMacro("o", "<img src=\"3\" />" \o StructuredMacro("n", "in") \o "<img src=\"4\" />"),
   "<ac:parameter ac:name=\"k\">v</ac:parameter>"}

\* tables: a header row, two header rows, a row of header and data cells,
\* a header row after a data row, and a table with the markup of the editor
TableRows ==
  {<<HeaderRow, DataRow>>, <<HeaderRow, "<tr><th>G</th></tr>", DataRow>>,
   <<MixedRow>>, <<DataRow, HeaderRow>>}

Tables ==
  {TableOf(Concat(rows)) : rows \in TableRows} \cup
  {"<table class=\"c\"><colgroup><col /></colgroup><tbody><tr><th class=\"h\"><p>H</p></th></tr>"
     \o "<tr><td><p>a</p><p>b</p></td></tr></tbody></table>"}

\* blob images: the file id of an attachment, an unknown id, and an id
\* that names a member of Object.prototype
BlobImages ==
  {"<img data-fileid=\"abc123\" alt=\"blob\" />", "<img data-fileid=\"zzz\" />",
   "<img data-fileid=\"constructor\" alt=\"c\" />"}

\* whitespace, an unclosed tag, a download link, and the decorations
Fragments ==
  {"  \n\t ", "<p>Text without closing tag",
   "<a href=\"/wiki/download/attachments/1/a(b.png\">f</a>",
   "<p>T<svg class=\"i\"><path d=\"M0\"/></svg>M</p>",
   "<h1><span class=\"heading-anchor-wrapper\">H</span><button data-testid=\"anchor-button\">C</button></h1>",
   "<span data-testid=\"visually-hidden\">V</span><span data-loadable-vc-wrapper=\"1\">W</span>"}

Kinds ==
  {ImageBlocks, Panels, CodeMacros, PageLinks, OtherMacros, Tables, BlobImages, Fragments}

\* the sequences of 1..MaxConstructs constructs of one kind
ConstructsOf(kind) == UNION {[1..n -> kind] : n \in 1..MaxConstructs}

\* the empty document and the documents of constructs of one kind
DocumentConstructs == {<<>>} \cup UNION {ConstructsOf(kind) : kind \in Kinds}

Documents == {Concat(seq) : seq \in DocumentConstructs}

PageSlugOfDocument == "my-page"

Attachment(original, fileId) ==
  [original |-> original, sanitized |-> sanitizeFilename(original),
   path |-> "./attachments/" \o PageSlugOfDocument \o "/" \o sanitizeFilename(original),
   fileId |-> fileId]

AttachmentLists ==
  <<(<<>>), <<Attachment("a(b.png", "abc123")>>, <<Attachment("n.png", Null)>>>>

\* the lists a document is converted with: every list for a document that
\* refers to a file, the empty list for the others
AttachmentsFor(document) ==
  IF Contains(document, "data-fileid") \/ Contains(document, "/wiki/download/")
  THEN Range(AttachmentLists)
  ELSE {<<>>}

\* ------------------------------------------------------------------------
\* The texts given to slugify and sanitizeFilename: at most MaxTextLen
\* characters, among them letters of both cases, a digit, a hyphen, an
\* underscore, whitespace and characters a file name must not hold
\* ------------------------------------------------------------------------
TextChars == {"A", "b", "1", "-", "_", " ", "\t", "?", ":"}

TextsOf(n) == {Concat(seq) : seq \in [1..n -> TextChars]}

UtilityTexts == UNION {TextsOf(n) : n \in 0..MaxTextLen}

\* ------------------------------------------------------------------------
\* The Confluence site a run of migrate() reads: at most MaxPages pages in a
\* tree under page "1", each with a title, one of them with links in its
\* body
\* ------------------------------------------------------------------------
\* titles: two that slugify to the same string, one that slugifies to ""
Titles == {"A B", "a-b", "?"}

\* the title of a page that is not in the tree
ForeignTitle == "Z"

\* the id of a page that is not in the tree
ForeignId == "9"

PageIdOf(k) == NumToString(k)

\* this.config.rootPageId
RootPageId == PageIdOf(1)

\* a vendor page link to the page titled title, with a rich link body, a
\* plain-text link body, or no body
VendorLink(title, kind) ==
  "<ac:link><ri:page ri:content-title=\"" \o title \o "\" />"
    \o (CASE kind = "rich" -> "<ac:link-body>x</ac:link-body>"
          [] kind = "plain" -> "<ac:plain-text-link-body><![CDATA[y]]></ac:plain-text-link-body>"
          [] kind = "bare" -> "")
    \o "</ac:link>"

\* an ordinary anchor to the absolute URL of page id, in either URL format
LegacyLink(id, kind) ==
  "<a href=\""
    \o (CASE kind = "spaceUrl" -> "http://h/wiki/spaces/K/pages/" \o id \o "/t"
          [] kind = "viewPage" -> "/wiki/pages/viewpage.action?pageId=" \o id)
    \o "\">z</a>"

LinkTargets == Titles \cup {ForeignTitle}

LegacyTargets == {PageIdOf(k) : k \in 1..MaxPages} \cup {ForeignId}

Bodies ==
  {""}
    \cup {"See " \o VendorLink(t, "bare") : t \in LinkTargets}
    \cup {"See " \o VendorLink("A B", kind) : kind \in {"rich", "plain"}}
    \cup {"See " \o LegacyLink(id, "spaceUrl") : id \in LegacyTargets}
    \cup {"See " \o LegacyLink(id, "viewPage") : id \in {"1", ForeignId}}
    \cup {VendorLink(t, "bare") \o " and " \o VendorLink("a-b", "bare") \o "."
            : t \in {"A B", ForeignTitle}}
    \cup {"See " \o LegacyLink(RootPageId, "spaceUrl") \o " or "
             \o LegacyLink(ForeignId, "viewPage")}

\* a site of n pages: parent[k] is the parent of page k (page 1 is the root),
\* title[k] its title, and page linker has the body body
SitesOf(n) ==
  {[n |-> n, parent |-> parent, title |-> title, linker |-> linker, body |-> body] :
     parent \in {q \in [2..n -> 1..n] : \A k \in 2..n : q[k] < k},
     title \in [1..n -> Titles],
     linker \in 1..n,
     body \in Bodies}

LinkSites ==
  {st \in UNION {SitesOf(n) : n \in 1..MaxPages} : st.body = "" => st.linker = 1}

\* the sites of n pages titled P1, P2, ... with empty bodies, one per tree
TreeSitesOf(n) ==
  {[n |-> n, parent |-> parent, title |-> [k \in 1..n |-> "P" \o NumToString(k)],
    linker |-> 1, body |-> ""] :
     parent \in {q \in [2..n -> 1..n] : \A k \in 2..n : q[k] < k}}

Sites == LinkSites \cup UNION {TreeSitesOf(n) : n \in 1..MaxTreePages}

PageIndex(id) == CHOOSE k \in 1..(MaxPages + MaxTreePages) : PageIdOf(k) = id

\* GET /content/{id}: the page's title and storage body
PageTitle(st, id) == st.title[PageIndex(id)]

PageBody(st, id) == IF PageIndex(id) = st.linker THEN st.body ELSE ""

\* GET /content/{id}/child/page: the child pages as the API lists them
RECURSIVE ListedFrom(_, _, _)
ListedFrom(st, id, k) ==
  IF k > st.n THEN <<>>
  ELSE (IF st.parent[k] = PageIndex(id) THEN <<PageIdOf(k)>> ELSE <<>>)
         \o ListedFrom(st, id, k + 1)

ListedChildren(st, id) == ListedFrom(st, id, 2)

\* the value of extensions.position of a page that has none
NoPosition == 999999

Positions == {1, 2, NoPosition}

\* response.data.results: the listed ids with their extensions.position
\* (NoPosition for a page that has none)
ListedPages(pages, pos) ==
  [k \in 1..Len(pages) |-> [id |-> pages[k], position |-> pos[k]]]

\* pages.sort((a, b) => posA - posB): a stable sort by position, pos[k] the
\* position of the k-th listed page
RECURSIVE InsertSorted(_, _, _)
InsertSorted(sorted, x, pos) ==
  IF sorted = <<>> THEN <<x>>
  ELSE IF pos[x] < pos[Head(sorted)] THEN <<x>> \o sorted
  ELSE <<Head(sorted)>> \o InsertSorted(Tail(sorted), x, pos)

RECURSIVE SortedIndices(_, _)
SortedIndices(k, pos) ==
  IF k = 0 THEN <<>>
  ELSE InsertSorted(SortedIndices(k - 1, pos), k, pos)

\* a sort that leaves the pages as the API listed them
SortByPosition_Unsorted(pages, pos) == pages

\* pages.sort(...) of fetchChildPages
SortByPosition(pages, pos) ==
  LET order == SortedIndices(Len(pages), pos)
  IN [k \in 1..Len(pages) |-> pages[order[k]]]

\* the keys validateConfig requires
RequiredKeys == <<"confluenceUrl", "rootPageId", "email", "apiToken">>

\* the filter without the last of the required keys
MissingKeys_WithoutLast(cfg) ==
  SelectSeq(SubSeq(RequiredKeys, 1, Len(RequiredKeys) - 1), LAMBDA key : ~cfg[key])

\* required.filter(key => !this.config[key])
MissingKeys(cfg) == SelectSeq(RequiredKeys, LAMBDA key : ~cfg[key])

\* the output directory './docs' as path.join normalises it
OutputDir == "docs"

\* migrate() with the link fixing ahead of the traversal
MigrateNext_FixFirst(step) ==
  CASE step = "validateConfig" -> "ensureDirs"
    [] step = "ensureDirs" -> "fixLinks"
    [] step = "fixLinks" -> "processPage"
    [] step = "processPage" -> "config"
    [] step = "config" -> "styles"
    [] step = "styles" -> "homepage"
    [] step = "homepage" -> "packageJson"
    [] step = "packageJson" -> "done"

\* the statements of migrate() in order
MigrateNext(step) ==
  CASE step = "validateConfig" -> "ensureDirs"
    [] step = "ensureDirs" -> "processPage"
    [] step = "processPage" -> "fixLinks"
    [] step = "fixLinks" -> "config"
    [] step = "config" -> "styles"
    [] step = "styles" -> "homepage"
    [] step = "homepage" -> "packageJson"
    [] step = "packageJson" -> "done"

\* ------------------------------------------------------------------------
\* generateVuePressConfig, createHomepage, createCustomStyles,
\* createPackageJson: the files they write (fixed text abbreviated)
\* ------------------------------------------------------------------------
\* buildSidebar(pageId), rendered on one line
RECURSIVE buildSidebar(_, _)
buildSidebar(map, pageId) ==
  IF ~MapHas(map, pageId) THEN "null"
  ELSE LET page == MapGet(map, pageId)
           items == [k \in 1..Len(page.children) |-> buildSidebar(map, page.children[k])]
           kept == SelectSeq(items, LAMBDA x : x # "null")
       IN "{text: \"" \o page.title \o "\", link: \"/" \o page.path \o "\""
            \o (IF Len(page.children) > 0
                THEN ", children: [" \o JoinWith(kept, ", ") \o "], collapsible: true"
                ELSE "")
            \o "}"

generateVuePressConfig(map) ==
  "export default { sidebar: [" \o buildSidebar(map, RootPageId) \o "] }"

\* the homepage: link: /${rootPage?.path || ''}
homepage(map) ==
  "---\nhome: true\nactions:\n  - text: Get Started\n    link: /"
    \o (IF MapHas(map, RootPageId) THEN MapGet(map, RootPageId).path ELSE "")
    \o "\n---\n"

\* ------------------------------------------------------------------------
\* copyMissingAttachments, lines 409-476
\* ------------------------------------------------------------------------
\* /!\[[^\]]*\]\(\.\/attachments\/[^/]+\/([^)]+)\)/gi starting at i: the
\* position of the slash that ends [^/]+, 0 when there is no match
ImageRefSlash(s, i) ==
  IF ~At(s, i, "![") \/ IndexOf(s, "]", i + 2) = 0
     \/ ~AtCI(s, IndexOf(s, "]", i + 2), "](./attachments/")
  THEN 0
  ELSE IF IndexOf(s, "/", IndexOf(s, "]", i + 2) + 16) > IndexOf(s, "]", i + 2) + 16
       THEN IndexOf(s, "/", IndexOf(s, "]", i + 2) + 16)
       ELSE 0

\* the position of the closing parenthesis after ([^)]+)
ImageRefClose(s, q) ==
  IF q = 0 \/ IndexOf(s, ")", q + 1) <= q + 1 THEN 0 ELSE IndexOf(s, ")", q + 1)

ImageRefEnd(s, i) == ImageRefClose(s, ImageRefSlash(s, i))

ImageRefMatches(s) ==
  Scan(Found({<<k, ImageRefEnd(s, k)>> : k \in 1..Len(s)}), 1)

\* match[1]: the file name of a match
ImageRefFilename(match) ==
  Sub(match, ImageRefSlash(match, 1) + 1, Len(match) - 1)

\* [...markdown.matchAll(imagePattern)], each match by its file name
ImageFilenames(markdown) ==
  [k \in 1..Len(ImageRefMatches(markdown)) |->
     ImageRefFilename(MatchText(markdown, ImageRefMatches(markdown)[k]))]

\* the last '/' of a path, 0 when it has none
LastSlash(p) == Max({0} \cup {k \in 1..Len(p) : Ch(p, k) = "/"})

\* path.basename(p) for a relative path without a trailing separator
Basename(p) == Sub(p, LastSlash(p) + 1, Len(p))

\* path.dirname(p) for a relative path without a trailing separator
Dirname(p) == IF LastSlash(p) = 0 THEN "." ELSE Sub(p, 1, LastSlash(p) - 1)

\* const localPath = path.join(attachmentDir, filename)
LocalPath(attachmentDir, filename) == PathJoin(<<attachmentDir, filename>>)

\* path.join(this.config.outputDir, searchPath, 'attachments', parentSlug,
\* filename)
ParentFilePath(searchPath, filename) ==
  PathJoin(<<OutputDir, searchPath, "attachments", Basename(searchPath), filename>>)

\* path.join(parentDir, sibling.name, 'attachments', sibling.name, filename)
SiblingFilePath(searchPath, sibling, filename) ==
  PathJoin(<<OutputDir, searchPath, sibling, "attachments", sibling, filename>>)

\* the first sibling, from index k of the listing, whose attachment
\* directory holds the file; 0 when there is none
RECURSIVE FirstSibling(_, _, _, _, _)
FirstSibling(disk, searchPath, siblings, filename, k) ==
  IF k > Len(siblings) THEN 0
  ELSE IF SiblingFilePath(searchPath, siblings[k], filename) \in disk THEN k
  ELSE FirstSibling(disk, searchPath, siblings, filename, k + 1)

\* searchPath = path.dirname(searchPath); '.' and '' become null, which is
\* the empty string here
NextSearchPath(searchPath) ==
  IF Dirname(searchPath) \in {".", ""} THEN "" ELSE Dirname(searchPath)

\* ------------------------------------------------------------------------
\* The inputs of a call of copyMissingAttachments: the page "p" at a depth
\* of at most MaxDepth below the output directory, Markdown with image
\* references, the attachment files on disk and the directories that
\* cannot be read
\* ------------------------------------------------------------------------
CopyPageSlug == "p"

\* the slug of the other folder at every level
OtherFolder == "s"

AncestorSlugs == <<"a", "b", "c", "d", "e">>

\* path.join(parentPath, pageSlug) of the callers: the parent at depth n,
\* and '.' for the child of a root page whose slug is empty
ParentPathAt(n) == IF n = 0 THEN "" ELSE Join(SubSeq(AncestorSlugs, 1, n))

ParentPaths == {ParentPathAt(n) : n \in 0..MaxDepth} \cup {"."}

\* path.join(dirPath, 'attachments', pageSlug)
AttachmentDirOf(parentPath) ==
  PathJoin(<<OutputDir, parentPath, CopyPageSlug, "attachments", CopyPageSlug>>)

\* the paths the search visits from parentPath upward
RECURSIVE SearchPaths(_)
SearchPaths(searchPath) ==
  IF searchPath = "" THEN <<>>
  ELSE <<searchPath>> \o SearchPaths(NextSearchPath(searchPath))

\* fs.readdir(parentDir): the folder 'attachments', the folder on the way
\* to the page, and the other folder
ListedFolders(searchPath, parentPath) ==
  <<"attachments",
    IF searchPath = parentPath \/ searchPath = "."
    THEN CopyPageSlug
    ELSE Parts(parentPath)[Len(Parts(searchPath)) + 1],
    OtherFolder>>

\* the places a copy of the file is put at for one search path: the
\* attachment directory of the ancestor and that of the other folder
PlacesAt(searchPath, filename) ==
  {ParentFilePath(searchPath, filename),
   SiblingFilePath(searchPath, OtherFolder, filename)}

\* every place a copy of the file is put at
PlacesOf(parentPath, filename) ==
  {LocalPath(AttachmentDirOf(parentPath), filename)}
    \cup UNION {PlacesAt(SearchPaths(parentPath)[k], filename) :
                  k \in 1..Len(SearchPaths(parentPath))}

ImageReference(folder, filename) ==
  "![i](./attachments/" \o folder \o "/" \o filename \o ")"

CopyMarkdowns ==
  {"", "no image",
   ImageReference("p", "f.png"),
   ImageReference("p", "g.png") \o " " \o ImageReference("p", "f.png"),
   ImageReference("p", "f.png") \o "\n" \o ImageReference("a", "f.png"),
   "![i](http://h/f.png) ![i](./attachments//f.png) " \o ImageReference("p", "g.png")}

\* copies of f.png at any of its places, g.png in the page's own directory
\* only
DisksOf(parentPath) ==
  SUBSET (PlacesOf(parentPath, "f.png")
            \cup {LocalPath(AttachmentDirOf(parentPath), "g.png")})

\* at most one of the directories listed by the search cannot be read
UnreadableSets(parentPath) ==
  {{}} \cup {{PathJoin(<<OutputDir, SearchPaths(parentPath)[k]>>)} :
               k \in 1..Len(SearchPaths(parentPath))}

\* ------------------------------------------------------------------------
\* State
\* ------------------------------------------------------------------------
VARIABLES
  input,                 \* the Markdown handed to the Text-Protection steps
  markdown,              \* the local variable markdown of convertToMarkdown
  codeBlockPlaceholders, \* extracted fenced code blocks, by index
  tablePlaceholders,     \* extracted tables, by index
  i,                     \* the counter of the escape loop
  tpStep,                \* the next step of the Text-Protection steps
  run,                   \* 1: first application, 2: applied to its own output
  firstOutput,           \* the string returned by the first application
  wrapped                \* every match that was wrapped in backticks (history)

protectVars ==
  <<input, markdown, codeBlockPlaceholders, tablePlaceholders, i, tpStep,
    run, firstOutput, wrapped>>

\* ------------------------------------------------------------------------
\* State of a run of migrate()
\* ------------------------------------------------------------------------
VARIABLES
  site,          \* the Confluence site behind the API
  config,        \* this.config: which required keys are set
  pc,            \* the statement of migrate() that runs next
  stack,         \* the pending calls of processPage, innermost last
  pageMap,       \* this.pageMap
  files,         \* the files on disk: path -> content
  dirs,          \* the directories on disk
  slugToPath,    \* local map of fixConfluenceLinks
  pageIdToPath,  \* local map of fixConfluenceLinks
  fixIndex,      \* fixConfluenceLinks: 0 before it starts, then the index of
                 \* the page-map entry whose file is fixed next
  error,         \* the error migrate() rejected with, "" when none
  called,        \* the page ids processPage was called with (history)
  emitted        \* the files as phase 1 left them (history)

migrateVars ==
  <<site, config, pc, stack, pageMap, files, dirs, slugToPath, pageIdToPath,
    fixIndex, error, called, emitted>>

\* ------------------------------------------------------------------------
\* State of a call of convertToMarkdown, one step per group of rules
\* ------------------------------------------------------------------------
VARIABLES
  constructs,   \* the constructs the document is made of
  doc,          \* the argument html
  attachments,  \* the argument attachments
  html,         \* the local variable html of preprocessConfluenceHtml
  nzStep,       \* the group of rules that runs next
  previous,     \* html before the group of rules that ran last (history)
  output,       \* the local variable markdown of convertToMarkdown
  thrown        \* an exception left convertToMarkdown

normalizeVars ==
  <<constructs, doc, attachments, html, nzStep, previous, output, thrown>>

\* ------------------------------------------------------------------------
\* State of the calls of the utilities on one text
\* ------------------------------------------------------------------------
VARIABLES
  utText,      \* the text the utilities are called with
  utSlug,      \* slugify(utText)
  utReslug,    \* slugify(utSlug)
  utFilename,  \* sanitizeFilename(utText)
  utStep       \* the call that is made next

utilityVars == <<utText, utSlug, utReslug, utFilename, utStep>>

\* ------------------------------------------------------------------------
\* State of a call of copyMissingAttachments
\* ------------------------------------------------------------------------
VARIABLES
  cmParentPath,  \* the argument parentPath
  cmMarkdown,    \* the argument markdown
  cmDisk,        \* the attachment files on disk
  cmUnreadable,  \* the directories fs.readdir fails on
  cmMatches,     \* the local variable matches, each match by its file name
  cmIndex,       \* the index in matches of the reference the loop is at
  cmSearchPath,  \* the local variable searchPath, "" for null
  cmFound,       \* the local variable found
  cmStep,        \* the statement that runs next
  cmVisited,     \* the search paths looked at for the current reference (history)
  cmFailed,      \* the directories fs.readdir failed on for the current reference (history)
  cmOutcomes,    \* what became of each reference the loop is done with (history)
  cmThrown       \* an exception left copyMissingAttachments

copyVars ==
  <<cmParentPath, cmMarkdown, cmDisk, cmUnreadable, cmMatches, cmIndex,
    cmSearchPath, cmFound, cmStep, cmVisited, cmFailed, cmOutcomes, cmThrown>>

\* ------------------------------------------------------------------------
\* State of the runs of fixConfluenceLinks over the same files
\* ------------------------------------------------------------------------
VARIABLES
  fixRuns        \* the number of times fixConfluenceLinks was called again

vars == <<protectVars, migrateVars, normalizeVars, utilityVars, copyVars, fixRuns>>

NoFiles == [p \in {} |-> ""]

MigrateIdle ==
  /\ site = [n |-> 1, parent |-> <<>>, title |-> <<"A B">>, linker |-> 1, body |-> ""]
  /\ config = [key \in {RequiredKeys[k] : k \in 1..Len(RequiredKeys)} |-> TRUE]
  /\ pc = "idle"
  /\ stack = <<>>
  /\ pageMap = <<>>
  /\ files = NoFiles
  /\ dirs = {}
  /\ slugToPath = NoFiles
  /\ pageIdToPath = NoFiles
  /\ fixIndex = 0
  /\ error = ""
  /\ called = {}
  /\ emitted = NoFiles

UtilityIdle ==
  /\ utText = ""
  /\ utSlug = ""
  /\ utReslug = ""
  /\ utFilename = ""
  /\ utStep = "idle"

FixIdle == fixRuns = 0

CopyIdle ==
  /\ cmParentPath = ""
  /\ cmMarkdown = ""
  /\ cmDisk = {}
  /\ cmUnreadable = {}
  /\ cmMatches = <<>>
  /\ cmIndex = 0
  /\ cmSearchPath = ""
  /\ cmFound = FALSE
  /\ cmStep = "idle"
  /\ cmVisited = <<>>
  /\ cmFailed = {}
  /\ cmOutcomes = <<>>
  /\ cmThrown = FALSE

NormalizeIdle ==
  /\ constructs = <<>>
  /\ doc = ""
  /\ attachments = <<>>
  /\ html = ""
  /\ nzStep = "idle"
  /\ previous = ""
  /\ output = ""
  /\ thrown = FALSE

InitProtect ==
  /\ input \in MarkdownInputs
  /\ markdown = input
  /\ codeBlockPlaceholders = <<>>
  /\ tablePlaceholders = <<>>
  /\ i = 0
  /\ tpStep = "vue"
  /\ run = 1
  /\ firstOutput = ""
  /\ wrapped = {}
  /\ MigrateIdle
  /\ NormalizeIdle
  /\ UtilityIdle
  /\ CopyIdle
  /\ FixIdle

\* lines 538-542: wrap component-like identifiers
EscapeVueStep ==
  /\ tpStep = "vue"
  /\ markdown' = escapeVueComponents(markdown)
  /\ wrapped' = wrapped \cup Range(Texts(markdown, VueMatches(markdown)))
  /\ tpStep' = "code"
  /\ UNCHANGED <<input, codeBlockPlaceholders, tablePlaceholders, i, run, firstOutput>>
  /\ UNCHANGED <<migrateVars, normalizeVars, utilityVars, copyVars, fixRuns>>

\* lines 546-550: extract the fenced code blocks
ProtectCodeBlocksStep ==
  /\ tpStep = "code"
  /\ codeBlockPlaceholders' = CodeBlocksIn(markdown)
  /\ markdown' = protectCodeBlocks(markdown)
  /\ tpStep' = "table"
  /\ UNCHANGED <<input, tablePlaceholders, i, run, firstOutput, wrapped>>
  /\ UNCHANGED <<migrateVars, normalizeVars, utilityVars, copyVars, fixRuns>>

\* lines 553-557: extract the tables
ProtectTablesStep ==
  /\ tpStep = "table"
  /\ tablePlaceholders' = TablesIn(markdown)
  /\ markdown' = protectTables(markdown)
  /\ i' = 0
  /\ tpStep' = "loop"
  /\ UNCHANGED <<input, codeBlockPlaceholders, run, firstOutput, wrapped>>
  /\ UNCHANGED <<migrateVars, normalizeVars, utilityVars, copyVars, fixRuns>>

\* lines 579-584: one iteration of the escape loop
EscapePassStep ==
  /\ tpStep = "loop"
  /\ i < EscapePasses
  /\ LET opened == escapeOpeningTags(markdown)
         closed == escapeClosingTags(opened)
     IN /\ markdown' = closed
        /\ wrapped' = wrapped \cup Range(Texts(markdown, OpeningTagMatches(markdown)))
                              \cup Range(Texts(opened, ClosingTagMatches(opened)))
        /\ IF closed = markdown
           THEN /\ tpStep' = "restoreTables"
                /\ i' = i
           ELSE /\ i' = i + 1
                /\ tpStep' = IF i + 1 < EscapePasses THEN "loop" ELSE "restoreTables"
  /\ UNCHANGED <<input, codeBlockPlaceholders, tablePlaceholders, run, firstOutput>>
  /\ UNCHANGED <<migrateVars, normalizeVars, utilityVars, copyVars, fixRuns>>

\* lines 587-589: restore the tables
RestoreTablesStep ==
  /\ tpStep = "restoreTables"
  /\ markdown' = RestoreTables(markdown, tablePlaceholders, 1)
  /\ tpStep' = "restoreCode"
  /\ UNCHANGED <<input, codeBlockPlaceholders, tablePlaceholders, i, run, firstOutput, wrapped>>
  /\ UNCHANGED <<migrateVars, normalizeVars, utilityVars, copyVars, fixRuns>>

\* lines 592-596: restore the code blocks and return
RestoreCodeBlocksStep ==
  /\ tpStep = "restoreCode"
  /\ markdown' = RestoreCodeBlocks(markdown, codeBlockPlaceholders, 1)
  /\ tpStep' = "done"
  /\ UNCHANGED <<input, codeBlockPlaceholders, tablePlaceholders, i, run, firstOutput, wrapped>>
  /\ UNCHANGED <<migrateVars, normalizeVars, utilityVars, copyVars, fixRuns>>

\* the returned string is handed to the same steps once more
ReapplyStep ==
  /\ tpStep = "done"
  /\ run = 1
  /\ run' = 2
  /\ firstOutput' = markdown
  /\ codeBlockPlaceholders' = <<>>
  /\ tablePlaceholders' = <<>>
  /\ i' = 0
  /\ tpStep' = "vue"
  /\ UNCHANGED <<input, markdown, wrapped>>
  /\ UNCHANGED <<migrateVars, normalizeVars, utilityVars, copyVars, fixRuns>>

NextProtect ==
  \/ EscapeVueStep
  \/ ProtectCodeBlocksStep
  \/ ProtectTablesStep
  \/ EscapePassStep
  \/ RestoreTablesStep
  \/ RestoreCodeBlocksStep
  \/ ReapplyStep

SpecProtect == InitProtect /\ [][NextProtect]_vars

\* the steps compose to the function TextProtection
StepsAgree == (tpStep = "done" /\ run = 1) => markdown = TextProtection(input)


\* ------------------------------------------------------------------------
\* migrate(): one action per statement, processPage as a stack of calls
\* ------------------------------------------------------------------------
\* fs.writeFile(path, content)
WriteFile(fs, path, content) ==
  [p \in DOMAIN fs \cup {path} |-> IF p = path THEN content ELSE fs[p]]

\* the local variables of a call processPage(pageId, parentPath)
NewCall(pageId, parentPath) ==
  [pageId |-> pageId, parentPath |-> parentPath, step |-> "fetchPage",
   pageTitle |-> "", pageSlug |-> "", html |-> "", markdownContent |-> "",
   childPages |-> <<>>, next |-> 1]

Top == stack[Len(stack)]

SetTop(call) == [stack EXCEPT ![Len(stack)] = call]

InProcessPage(step) == pc = "processPage" /\ stack # <<>> /\ Top.step = step

\* const dirPath = path.join(this.config.outputDir, parentPath, pageSlug)
DirPath(call) == PathJoin(<<OutputDir, call.parentPath, call.pageSlug>>)

ProtectIdle ==
  /\ input = ""
  /\ markdown = ""
  /\ codeBlockPlaceholders = <<>>
  /\ tablePlaceholders = <<>>
  /\ i = 0
  /\ tpStep = "idle"
  /\ run = 0
  /\ firstOutput = ""
  /\ wrapped = {}

\* a new ConfluenceToVuePress(options) on which migrate() is called
Init ==
  /\ ProtectIdle
  /\ NormalizeIdle
  /\ UtilityIdle
  /\ CopyIdle
  /\ FixIdle
  /\ config \in [{RequiredKeys[k] : k \in 1..Len(RequiredKeys)} -> BOOLEAN]
  /\ site \in Sites
  /\ (MissingKeys(config) # <<>>) => (site.n = 1 /\ site.body = "" /\ site.title[1] = "A B")
  /\ pc = "validateConfig"
  /\ stack = <<>>
  /\ pageMap = <<>>
  /\ files = NoFiles
  /\ dirs = {}
  /\ slugToPath = NoFiles
  /\ pageIdToPath = NoFiles
  /\ fixIndex = 0
  /\ error = ""
  /\ called = {}
  /\ emitted = NoFiles

\* line 894, validateConfig at 288-295
ValidateConfig ==
  /\ pc = "validateConfig"
  /\ LET missing == MissingKeys(config)
     IN IF Len(missing) > 0
        THEN /\ error' = "Missing required configuration: " \o JoinWith(missing, ", ")
             /\ pc' = "rejected"
        ELSE /\ error' = error
             /\ pc' = MigrateNext("validateConfig")
  /\ UNCHANGED <<site, config, stack, pageMap, files, dirs, slugToPath,
                 pageIdToPath, fixIndex, called, emitted>>
  /\ UNCHANGED <<protectVars, normalizeVars, utilityVars, copyVars, fixRuns>>

\* lines 896-897
EnsureOutputDirs ==
  /\ pc = "ensureDirs"
  /\ dirs' = dirs \cup {OutputDir, PathJoin(<<OutputDir, ".vuepress">>)}
  /\ pc' = MigrateNext("ensureDirs")
  /\ UNCHANGED <<site, config, stack, pageMap, files, slugToPath,
                 pageIdToPath, fixIndex, error, called, emitted>>
  /\ UNCHANGED <<protectVars, normalizeVars, utilityVars, copyVars, fixRuns>>

\* line 900: the call processPage(this.config.rootPageId)
ProcessRootPage ==
  /\ pc = "processPage"
  /\ stack = <<>>
  /\ stack' = <<NewCall(RootPageId, "")>>
  /\ called' = called \cup {RootPageId}
  /\ UNCHANGED <<site, config, pc, pageMap, files, dirs, slugToPath,
                 pageIdToPath, fixIndex, error, emitted>>
  /\ UNCHANGED <<protectVars, normalizeVars, utilityVars, copyVars, fixRuns>>

\* lines 606-608: fetchPage (323-330) resolves with the page, or rejects and
\* the rejection passes through every pending call and through migrate()
FetchPage ==
  /\ InProcessPage("fetchPage")
  /\ \E ok \in BOOLEAN :
       IF ok
       THEN /\ stack' = SetTop([Top EXCEPT
                           !.pageTitle = PageTitle(site, Top.pageId),
                           !.pageSlug = slugify(PageTitle(site, Top.pageId)),
                           !.step = "ensureDir"])
            /\ UNCHANGED <<pc, error>>
       ELSE /\ stack' = <<>>
            /\ pc' = "rejected"
            /\ error' = "Request failed"
  /\ UNCHANGED <<site, config, pageMap, files, dirs, slugToPath,
                 pageIdToPath, fixIndex, called, emitted>>
  /\ UNCHANGED <<protectVars, normalizeVars, utilityVars, copyVars, fixRuns>>

\* lines 612-616: the page's directory; the page has no attachments, so
\* downloadAttachments returns []
EnsurePageDir ==
  /\ InProcessPage("ensureDir")
  /\ dirs' = dirs \cup {DirPath(Top)}
  /\ stack' = SetTop([Top EXCEPT !.step = "convert"])
  /\ UNCHANGED <<site, config, pc, pageMap, files, slugToPath,
                 pageIdToPath, fixIndex, error, called, emitted>>
  /\ UNCHANGED <<protectVars, normalizeVars, utilityVars, copyVars, fixRuns>>

\* lines 618-624: convertToMarkdown; the Markdown has no image, so
\* downloadExternalImages and copyMissingAttachments leave it alone
ConvertPage ==
  /\ InProcessPage("convert")
  /\ \E normalized \in {preprocessConfluenceHtml(PageBody(site, Top.pageId), Top.pageSlug, <<>>)} :
       stack' = SetTop([Top EXCEPT
                  !.html = normalized,
                  !.markdownContent = convertNormalized(normalized),
                  !.step = "write"])
  /\ UNCHANGED <<site, config, pc, pageMap, files, dirs, slugToPath,
                 pageIdToPath, fixIndex, error, called, emitted>>
  /\ UNCHANGED <<protectVars, normalizeVars, utilityVars, copyVars, fixRuns>>

\* lines 626-641: frontmatter and README.md
WritePage ==
  /\ InProcessPage("write")
  /\ files' = WriteFile(files, PathJoin(<<DirPath(Top), "README.md">>),
                        frontmatter(Top.pageTitle) \o Top.markdownContent)
  /\ stack' = SetTop([Top EXCEPT !.step = "record"])
  /\ UNCHANGED <<site, config, pc, pageMap, dirs, slugToPath,
                 pageIdToPath, fixIndex, error, called, emitted>>
  /\ UNCHANGED <<protectVars, normalizeVars, utilityVars, copyVars, fixRuns>>

\* lines 643-653: this.pageMap.set(pageId, {...})
RecordPage ==
  /\ InProcessPage("record")
  /\ pageMap' = MapSet(pageMap, Top.pageId,
                       [title |-> Top.pageTitle,
                        path |-> PagePath(Top.parentPath, Top.pageSlug),
                        slug |-> Top.pageSlug,
                        children |-> <<>>])
  /\ stack' = SetTop([Top EXCEPT !.step = "fetchChildPages"])
  /\ UNCHANGED <<site, config, pc, files, dirs, slugToPath,
                 pageIdToPath, fixIndex, error, called, emitted>>
  /\ UNCHANGED <<protectVars, normalizeVars, utilityVars, copyVars, fixRuns>>

\* fetchChildPages without its catch: a failed request rejects migrate()
FetchChildPages_Rejecting ==
  /\ InProcessPage("fetchChildPages")
  /\ LET pages == ListedChildren(site, Top.pageId)
     IN \E ok \in BOOLEAN, pos \in [1..Len(pages) -> Positions] :
          IF ok
          THEN /\ stack' = SetTop([Top EXCEPT
                             !.childPages = SortByPosition(ListedPages(pages, pos), pos),
                             !.next = 1,
                             !.step = "children"])
               /\ UNCHANGED <<pc, error>>
          ELSE /\ stack' = <<>>
               /\ pc' = "rejected"
               /\ error' = "Request failed"
  /\ UNCHANGED <<site, config, pageMap, files, dirs, slugToPath,
                 pageIdToPath, fixIndex, called, emitted>>
  /\ UNCHANGED <<protectVars, normalizeVars, utilityVars, copyVars, fixRuns>>

\* line 655, fetchChildPages at 335-355: the listed children sorted by
\* position, or [] when the request fails
FetchChildPages ==
  /\ InProcessPage("fetchChildPages")
  /\ LET pages == ListedChildren(site, Top.pageId)
     IN \E ok \in BOOLEAN, pos \in [1..Len(pages) -> Positions] :
          stack' = SetTop([Top EXCEPT
                     !.childPages = IF ok
                                    THEN SortByPosition(ListedPages(pages, pos), pos)
                                    ELSE <<>>,
                     !.next = 1,
                     !.step = "children"])
  /\ UNCHANGED <<site, config, pc, pageMap, files, dirs, slugToPath,
                 pageIdToPath, fixIndex, error, called, emitted>>
  /\ UNCHANGED <<protectVars, normalizeVars, utilityVars, copyVars, fixRuns>>

\* line 659: the call processPage(child.id, path.join(parentPath, pageSlug))
ProcessChild ==
  /\ InProcessPage("children")
  /\ Top.next <= Len(Top.childPages)
  /\ LET child == Top.childPages[Top.next].id
     IN /\ stack' = Append(stack, NewCall(child, PathJoin(<<Top.parentPath, Top.pageSlug>>)))
        /\ called' = called \cup {child}
  /\ UNCHANGED <<site, config, pc, pageMap, files, dirs, slugToPath,
                 pageIdToPath, fixIndex, error, emitted>>
  /\ UNCHANGED <<protectVars, normalizeVars, utilityVars, copyVars, fixRuns>>

\* the call has no child left
Returns(call) == call.step = "children" /\ call.next > Len(call.childPages)

\* line 660: a child's call returns, its parent records it and moves on
ReturnToParent ==
  /\ pc = "processPage"
  /\ Len(stack) > 1
  /\ Returns(Top)
  /\ LET parent == stack[Len(stack) - 1]
         entry == MapGet(pageMap, parent.pageId)
     IN /\ pageMap' = [pageMap EXCEPT ![MapIndex(pageMap, parent.pageId)] =
                         [entry EXCEPT !.children = Append(entry.children, Top.pageId)]]
        /\ stack' = [SubSeq(stack, 1, Len(stack) - 1) EXCEPT ![Len(stack) - 1] =
                       [parent EXCEPT !.next = parent.next + 1]]
  /\ UNCHANGED <<site, config, pc, files, dirs, slugToPath,
                 pageIdToPath, fixIndex, error, called, emitted>>
  /\ UNCHANGED <<protectVars, normalizeVars, utilityVars, copyVars, fixRuns>>

\* line 900: the root's call returns to migrate()
ReturnToMigrate ==
  /\ pc = "processPage"
  /\ Len(stack) = 1
  /\ Returns(Top)
  /\ stack' = <<>>
  /\ pc' = MigrateNext("processPage")
  /\ UNCHANGED <<site, config, pageMap, files, dirs, slugToPath,
                 pageIdToPath, fixIndex, error, called, emitted>>
  /\ UNCHANGED <<protectVars, normalizeVars, utilityVars, copyVars, fixRuns>>

\* lines 808-832: fixConfluenceLinks starts and builds its two maps
BuildLinkMaps ==
  /\ pc = "fixLinks"
  /\ fixIndex = 0
  /\ slugToPath' = BuildSlugToPath(pageMap)
  /\ pageIdToPath' = BuildPageIdToPath(pageMap)
  /\ fixIndex' = 1
  /\ emitted' = files
  /\ UNCHANGED <<site, config, pc, stack, pageMap, files, dirs, error, called>>
  /\ UNCHANGED <<protectVars, normalizeVars, utilityVars, copyVars, fixRuns>>

\* lines 835-883: one iteration of the loop over the page map
FixFile ==
  /\ pc = "fixLinks"
  /\ fixIndex \in 1..Len(pageMap)
  /\ LET pageInfo == pageMap[fixIndex]
         mdPath == PathJoin(<<OutputDir, pageInfo.path, "README.md">>)
         ctx == [slugToPath |-> slugToPath, pageIdToPath |-> pageIdToPath,
                 path |-> pageInfo.path]
     IN files' = IF mdPath \in DOMAIN files /\ Modified(files[mdPath], ctx)
                 THEN WriteFile(files, mdPath, FixContent(files[mdPath], ctx))
                 ELSE files
  /\ fixIndex' = fixIndex + 1
  /\ UNCHANGED <<site, config, pc, stack, pageMap, dirs, slugToPath,
                 pageIdToPath, error, called, emitted>>
  /\ UNCHANGED <<protectVars, normalizeVars, utilityVars, copyVars, fixRuns>>

\* lines 885-886: the loop is over, fixConfluenceLinks returns
FinishFixLinks ==
  /\ pc = "fixLinks"
  /\ fixIndex > Len(pageMap)
  /\ pc' = MigrateNext("fixLinks")
  /\ UNCHANGED <<site, config, stack, pageMap, files, dirs, slugToPath,
                 pageIdToPath, fixIndex, error, called, emitted>>
  /\ UNCHANGED <<protectVars, normalizeVars, utilityVars, copyVars, fixRuns>>

\* lines 905-909
WriteConfig ==
  /\ pc = "config"
  /\ files' = WriteFile(files, PathJoin(<<OutputDir, ".vuepress", "config.js">>),
                        generateVuePressConfig(pageMap))
  /\ pc' = MigrateNext("config")
  /\ UNCHANGED <<site, config, stack, pageMap, dirs, slugToPath,
                 pageIdToPath, fixIndex, error, called, emitted>>
  /\ UNCHANGED <<protectVars, normalizeVars, utilityVars, copyVars, fixRuns>>

\* lines 911-913, createCustomStyles at 761-803
CreateCustomStyles ==
  /\ pc = "styles"
  /\ dirs' = dirs \cup {PathJoin(<<OutputDir, ".vuepress", "styles">>)}
  /\ files' = WriteFile(files, PathJoin(<<OutputDir, ".vuepress", "styles", "index.scss">>),
                        ":root { --content-width: 100%; }")
  /\ pc' = MigrateNext("styles")
  /\ UNCHANGED <<site, config, stack, pageMap, slugToPath,
                 pageIdToPath, fixIndex, error, called, emitted>>
  /\ UNCHANGED <<protectVars, normalizeVars, utilityVars, copyVars, fixRuns>>

\* lines 915-917, createHomepage at 717-731
CreateHomepage ==
  /\ pc = "homepage"
  /\ files' = WriteFile(files, PathJoin(<<OutputDir, "README.md">>), homepage(pageMap))
  /\ pc' = MigrateNext("homepage")
  /\ UNCHANGED <<site, config, stack, pageMap, dirs, slugToPath,
                 pageIdToPath, fixIndex, error, called, emitted>>
  /\ UNCHANGED <<protectVars, normalizeVars, utilityVars, copyVars, fixRuns>>

\* lines 919-929, createPackageJson at 736-756
CreatePackageJson ==
  /\ pc = "packageJson"
  /\ files' = WriteFile(files, PathJoin(<<OutputDir, "package.json">>),
                        "{\"name\": \"docs\", \"version\": \"1.0.0\"}")
  /\ pc' = MigrateNext("packageJson")
  /\ UNCHANGED <<site, config, stack, pageMap, dirs, slugToPath,
                 pageIdToPath, fixIndex, error, called, emitted>>
  /\ UNCHANGED <<protectVars, normalizeVars, utilityVars, copyVars, fixRuns>>

Next ==
  \/ ValidateConfig
  \/ EnsureOutputDirs
  \/ ProcessRootPage
  \/ FetchPage
  \/ EnsurePageDir
  \/ ConvertPage
  \/ WritePage
  \/ RecordPage
  \/ FetchChildPages
  \/ ProcessChild
  \/ ReturnToParent
  \/ ReturnToMigrate
  \/ BuildLinkMaps
  \/ FixFile
  \/ FinishFixLinks
  \/ WriteConfig
  \/ CreateCustomStyles
  \/ CreateHomepage
  \/ CreatePackageJson

Spec == Init /\ [][Next]_vars

\* ------------------------------------------------------------------------
\* convertToMarkdown(doc, attachments, pageSlug), rule group by rule group
\* ------------------------------------------------------------------------
InitNormalize ==
  /\ constructs \in DocumentConstructs
  /\ doc = Concat(constructs)
  /\ attachments \in AttachmentsFor(doc)
  /\ html = doc
  /\ nzStep = "blobImages"
  /\ previous = doc
  /\ output = ""
  /\ thrown = FALSE
  /\ ProtectIdle
  /\ MigrateIdle
  /\ UtilityIdle
  /\ CopyIdle
  /\ FixIdle

\* lines 59-71
ConvertBlobImagesStep ==
  /\ nzStep = "blobImages"
  /\ html' = convertBlobImages(html, attachments)
  /\ previous' = html
  /\ nzStep' = "decorations"
  /\ UNCHANGED <<constructs, doc, attachments, output, thrown>>
  /\ UNCHANGED <<protectVars, migrateVars, utilityVars, copyVars, fixRuns>>

\* lines 73-79
RemoveDecorationsStep ==
  /\ nzStep = "decorations"
  /\ html' = removeDecorations(html)
  /\ previous' = html
  /\ nzStep' = "editorPanels"
  /\ UNCHANGED <<constructs, doc, attachments, output, thrown>>
  /\ UNCHANGED <<protectVars, migrateVars, utilityVars, copyVars, fixRuns>>

\* lines 81-92
NormalizeEditorPanelsStep ==
  /\ nzStep = "editorPanels"
  /\ html' = normalizeEditorPanels(html)
  /\ previous' = html
  /\ nzStep' = "loadables"
  /\ UNCHANGED <<constructs, doc, attachments, output, thrown>>
  /\ UNCHANGED <<protectVars, migrateVars, utilityVars, copyVars, fixRuns>>

\* line 95
UnwrapLoadablesStep ==
  /\ nzStep = "loadables"
  /\ html' = unwrapLoadables(html)
  /\ previous' = html
  /\ nzStep' = "images"
  /\ UNCHANGED <<constructs, doc, attachments, output, thrown>>
  /\ UNCHANGED <<protectVars, migrateVars, utilityVars, copyVars, fixRuns>>

\* lines 97-114
ConvertImagesStep ==
  /\ nzStep = "images"
  /\ html' = convertImages(html, PageSlugOfDocument)
  /\ previous' = html
  /\ nzStep' = "macroPanels"
  /\ UNCHANGED <<constructs, doc, attachments, output, thrown>>
  /\ UNCHANGED <<protectVars, migrateVars, utilityVars, copyVars, fixRuns>>

\* lines 116-124
ConvertMacroPanelsStep ==
  /\ nzStep = "macroPanels"
  /\ html' = convertMacroPanels(html)
  /\ previous' = html
  /\ nzStep' = "codeWithLanguage"
  /\ UNCHANGED <<constructs, doc, attachments, output, thrown>>
  /\ UNCHANGED <<protectVars, migrateVars, utilityVars, copyVars, fixRuns>>

\* lines 141-145
ConvertCodeWithLanguageStep ==
  /\ nzStep = "codeWithLanguage"
  /\ html' = convertCodeWithLanguage(html)
  /\ previous' = html
  /\ nzStep' = "code"
  /\ UNCHANGED <<constructs, doc, attachments, output, thrown>>
  /\ UNCHANGED <<protectVars, migrateVars, utilityVars, copyVars, fixRuns>>

\* lines 147-151
ConvertCodeWithoutLanguageStep ==
  /\ nzStep = "code"
  /\ html' = convertCodeWithoutLanguage(html)
  /\ previous' = html
  /\ nzStep' = "residualMacros"
  /\ UNCHANGED <<constructs, doc, attachments, output, thrown>>
  /\ UNCHANGED <<protectVars, migrateVars, utilityVars, copyVars, fixRuns>>

\* lines 153-166
RemoveResidualMacrosStep ==
  /\ nzStep = "residualMacros"
  /\ html' = removeResidualMacros(html)
  /\ previous' = html
  /\ nzStep' = "tables"
  /\ UNCHANGED <<constructs, doc, attachments, output, thrown>>
  /\ UNCHANGED <<protectVars, migrateVars, utilityVars, copyVars, fixRuns>>

\* lines 168-187
CleanTablesStep ==
  /\ nzStep = "tables"
  /\ html' = cleanTables(html)
  /\ previous' = html
  /\ nzStep' = "pageLinks"
  /\ UNCHANGED <<constructs, doc, attachments, output, thrown>>
  /\ UNCHANGED <<protectVars, migrateVars, utilityVars, copyVars, fixRuns>>

\* lines 189-217
ConvertPageLinksStep ==
  /\ nzStep = "pageLinks"
  /\ html' = convertPageLinks(html)
  /\ previous' = html
  /\ nzStep' = "turndown"
  /\ UNCHANGED <<constructs, doc, attachments, output, thrown>>
  /\ UNCHANGED <<protectVars, migrateVars, utilityVars, copyVars, fixRuns>>

\* line 530
TurndownStep ==
  /\ nzStep = "turndown"
  /\ output' = turndown(html)
  /\ nzStep' = "attachments"
  /\ UNCHANGED <<constructs, doc, attachments, html, previous, thrown>>
  /\ UNCHANGED <<protectVars, migrateVars, utilityVars, copyVars, fixRuns>>

\* lines 533-536
ReplaceAttachmentUrlsStep ==
  /\ nzStep = "attachments"
  /\ IF AttachmentLoopThrows(attachments)
     THEN /\ thrown' = TRUE
          /\ nzStep' = "thrown"
          /\ UNCHANGED output
     ELSE /\ output' = replaceAttachmentUrls(output, attachments, 1)
          /\ nzStep' = "protect"
          /\ UNCHANGED thrown
  /\ UNCHANGED <<constructs, doc, attachments, html, previous>>
  /\ UNCHANGED <<protectVars, migrateVars, utilityVars, copyVars, fixRuns>>

\* lines 538-596
ProtectTextStep ==
  /\ nzStep = "protect"
  /\ output' = TextProtection(output)
  /\ nzStep' = "returned"
  /\ UNCHANGED <<constructs, doc, attachments, html, previous, thrown>>
  /\ UNCHANGED <<protectVars, migrateVars, utilityVars, copyVars, fixRuns>>

NextNormalize ==
  \/ ConvertBlobImagesStep
  \/ RemoveDecorationsStep
  \/ NormalizeEditorPanelsStep
  \/ UnwrapLoadablesStep
  \/ ConvertImagesStep
  \/ ConvertMacroPanelsStep
  \/ ConvertCodeWithLanguageStep
  \/ ConvertCodeWithoutLanguageStep
  \/ RemoveResidualMacrosStep
  \/ CleanTablesStep
  \/ ConvertPageLinksStep
  \/ TurndownStep
  \/ ReplaceAttachmentUrlsStep
  \/ ProtectTextStep

SpecNormalize == InitNormalize /\ [][NextNormalize]_vars

\* the steps compose to the functions they are steps of
NormalizeStepsAgree ==
  /\ nzStep \in {"turndown", "attachments", "protect", "returned", "thrown"} =>
       html = preprocessConfluenceHtml(doc, PageSlugOfDocument, attachments)
  /\ nzStep = "returned" =>
       output = convertToMarkdown(doc, attachments, PageSlugOfDocument)



\* ------------------------------------------------------------------------
\* The utilities, called on one text: slugify, slugify on its own result,
\* and sanitizeFilename
\* ------------------------------------------------------------------------
InitUtility ==
  /\ utText \in UtilityTexts
  /\ utSlug = ""
  /\ utReslug = ""
  /\ utFilename = ""
  /\ utStep = "slugify"
  /\ ProtectIdle
  /\ MigrateIdle
  /\ NormalizeIdle
  /\ CopyIdle
  /\ FixIdle

\* slugify(text), lines 221-226
SlugifyStep ==
  /\ utStep = "slugify"
  /\ utSlug' = slugify(utText)
  /\ utStep' = "reslug"
  /\ UNCHANGED <<utText, utReslug, utFilename>>
  /\ UNCHANGED <<protectVars, migrateVars, normalizeVars, copyVars, fixRuns>>

\* slugify called on the slug it returned
ReslugStep ==
  /\ utStep = "reslug"
  /\ utReslug' = slugify(utSlug)
  /\ utStep' = "sanitize"
  /\ UNCHANGED <<utText, utSlug, utFilename>>
  /\ UNCHANGED <<protectVars, migrateVars, normalizeVars, copyVars, fixRuns>>

\* sanitizeFilename(filename), lines 229-235
SanitizeFilenameStep ==
  /\ utStep = "sanitize"
  /\ utFilename' = sanitizeFilename(utText)
  /\ utStep' = "done"
  /\ UNCHANGED <<utText, utSlug, utReslug>>
  /\ UNCHANGED <<protectVars, migrateVars, normalizeVars, copyVars, fixRuns>>

NextUtility ==
  \/ SlugifyStep
  \/ ReslugStep
  \/ SanitizeFilenameStep

SpecUtility == InitUtility /\ [][NextUtility]_vars

\* ------------------------------------------------------------------------
\* copyMissingAttachments(markdown, attachmentDir, pageSlug, parentPath),
\* one action per statement that waits for the file system
\* ------------------------------------------------------------------------
InitCopy ==
  /\ cmParentPath \in ParentPaths
  /\ cmMarkdown \in CopyMarkdowns
  /\ cmDisk \in DisksOf(cmParentPath)
  /\ cmUnreadable \in UnreadableSets(cmParentPath)
  /\ cmMatches = <<>>
  /\ cmIndex = 0
  /\ cmSearchPath = ""
  /\ cmFound = FALSE
  /\ cmStep = "match"
  /\ cmVisited = <<>>
  /\ cmFailed = {}
  /\ cmOutcomes = <<>>
  /\ cmThrown = FALSE
  /\ ProtectIdle
  /\ MigrateIdle
  /\ NormalizeIdle
  /\ UtilityIdle
  /\ FixIdle

\* the reference at which the loop is
CurrentFilename == cmMatches[cmIndex]

CurrentLocalPath == LocalPath(AttachmentDirOf(cmParentPath), CurrentFilename)

\* the call returns after the first reference
AfterReference_ReturnAtOnce == "returned"

\* the step after the body of the for loop has ended for one reference
AfterReference == IF cmIndex < Len(cmMatches) THEN "access" ELSE "returned"

\* lines 410-415: the matches; no match, return; else ensureDir, which
\* throws what fs.mkdir throws unless it is EEXIST
MatchImages ==
  /\ cmStep = "match"
  /\ cmMatches' = ImageFilenames(cmMarkdown)
  /\ IF Len(ImageFilenames(cmMarkdown)) = 0
     THEN /\ cmStep' = "returned"
          /\ UNCHANGED <<cmIndex, cmThrown>>
     ELSE \E ok \in BOOLEAN :
            IF ok
            THEN /\ cmStep' = "access"
                 /\ cmIndex' = 1
                 /\ UNCHANGED cmThrown
            ELSE /\ cmStep' = "thrown"
                 /\ cmThrown' = TRUE
                 /\ UNCHANGED cmIndex
  /\ UNCHANGED <<cmParentPath, cmMarkdown, cmDisk, cmUnreadable, cmSearchPath,
                 cmFound, cmVisited, cmFailed, cmOutcomes>>
  /\ UNCHANGED <<protectVars, migrateVars, normalizeVars, utilityVars, fixRuns>>

\* lines 417-430: the file is in the page's own directory (continue), or
\* the search starts at parentPath
AccessLocal ==
  /\ cmStep = "access"
  /\ IF CurrentLocalPath \in cmDisk
     THEN /\ cmOutcomes' = Append(cmOutcomes,
                                  [filename |-> CurrentFilename, outcome |-> "exists",
                                   from |-> CurrentLocalPath, failed |-> {}])
          /\ cmIndex' = IF cmIndex < Len(cmMatches) THEN cmIndex + 1 ELSE cmIndex
          /\ cmStep' = AfterReference
          /\ UNCHANGED <<cmFound, cmSearchPath, cmVisited, cmFailed>>
     ELSE /\ cmFound' = FALSE
          /\ cmSearchPath' = cmParentPath
          /\ cmVisited' = <<>>
          /\ cmFailed' = {}
          /\ cmStep' = "search"
          /\ UNCHANGED <<cmOutcomes, cmIndex>>
  /\ UNCHANGED <<cmParentPath, cmMarkdown, cmDisk, cmUnreadable, cmMatches, cmThrown>>
  /\ UNCHANGED <<protectVars, migrateVars, normalizeVars, utilityVars, fixRuns>>

\* lines 431-441: one turn of the while loop, the try block: the file is in
\* the attachment directory of searchPath and is copied, or it is not
SearchParent ==
  /\ cmStep = "search"
  /\ cmSearchPath # ""
  /\ ~cmFound
  /\ cmVisited' = Append(cmVisited, cmSearchPath)
  /\ IF ParentFilePath(cmSearchPath, CurrentFilename) \in cmDisk
     THEN /\ cmDisk' = cmDisk \cup {CurrentLocalPath}
          /\ cmFound' = TRUE
          /\ cmOutcomes' = Append(cmOutcomes,
                                  [filename |-> CurrentFilename, outcome |-> "copied",
                                   from |-> ParentFilePath(cmSearchPath, CurrentFilename),
                                   failed |-> cmFailed])
          /\ UNCHANGED cmStep
     ELSE /\ cmStep' = "siblings"
          /\ UNCHANGED <<cmDisk, cmFound, cmOutcomes>>
  /\ UNCHANGED <<cmParentPath, cmMarkdown, cmUnreadable, cmMatches, cmIndex,
                 cmSearchPath, cmFailed, cmThrown>>
  /\ UNCHANGED <<protectVars, migrateVars, normalizeVars, utilityVars, fixRuns>>

\* lines 442-468: the catch block: the folders of searchPath are listed and
\* the file is copied from the first one that has it; a directory that
\* cannot be read is passed over; then searchPath moves one segment up
SearchSiblings ==
  /\ cmStep = "siblings"
  /\ \E sibling \in {IF PathJoin(<<OutputDir, cmSearchPath>>) \in cmUnreadable
                     THEN 0
                     ELSE FirstSibling(cmDisk, cmSearchPath,
                                       ListedFolders(cmSearchPath, cmParentPath),
                                       CurrentFilename, 1)} :
       IF sibling > 0
       THEN /\ cmDisk' = cmDisk \cup {CurrentLocalPath}
            /\ cmFound' = TRUE
            /\ cmOutcomes' = Append(cmOutcomes,
                 [filename |-> CurrentFilename, outcome |-> "copied",
                  from |-> SiblingFilePath(cmSearchPath,
                             ListedFolders(cmSearchPath, cmParentPath)[sibling],
                             CurrentFilename),
                  failed |-> cmFailed])
       ELSE UNCHANGED <<cmDisk, cmFound, cmOutcomes>>
  /\ cmFailed' = IF PathJoin(<<OutputDir, cmSearchPath>>) \in cmUnreadable
                 THEN cmFailed \cup {PathJoin(<<OutputDir, cmSearchPath>>)}
                 ELSE cmFailed
  /\ cmSearchPath' = NextSearchPath(cmSearchPath)
  /\ cmStep' = "search"
  /\ UNCHANGED <<cmParentPath, cmMarkdown, cmUnreadable, cmMatches, cmIndex,
                 cmVisited, cmThrown>>
  /\ UNCHANGED <<protectVars, migrateVars, normalizeVars, utilityVars, fixRuns>>

\* lines 471-474: the while loop is over; the warning when the file was
\* found nowhere; the for loop goes to the next reference
FinishReference ==
  /\ cmStep = "search"
  /\ (cmSearchPath = "" \/ cmFound)
  /\ cmOutcomes' = IF cmFound THEN cmOutcomes
                   ELSE Append(cmOutcomes,
                               [filename |-> CurrentFilename, outcome |-> "missing",
                                from |-> "", failed |-> cmFailed])
  /\ cmIndex' = IF cmIndex < Len(cmMatches) THEN cmIndex + 1 ELSE cmIndex
  /\ cmStep' = AfterReference
  /\ UNCHANGED <<cmParentPath, cmMarkdown, cmDisk, cmUnreadable, cmMatches,
                 cmSearchPath, cmFound, cmVisited, cmFailed, cmThrown>>
  /\ UNCHANGED <<protectVars, migrateVars, normalizeVars, utilityVars, fixRuns>>

NextCopy ==
  \/ MatchImages
  \/ AccessLocal
  \/ SearchParent
  \/ SearchSiblings
  \/ FinishReference

SpecCopy == InitCopy /\ [][NextCopy]_vars

\* the call has returned or thrown: no statement waits
CopyEnded == cmStep \in {"returned", "thrown"}

\* every statement that waits for the file system is resumed: weak
\* fairness of NextCopy, WF_vars(NextCopy), written out as
\* []<>~ENABLED <<NextCopy>>_vars \/ []<><<NextCopy>>_vars, with CopyEnded
\* for the states in which no step of NextCopy is enabled
FairSpecCopy == SpecCopy /\ ([]<>CopyEnded \/ []<><<NextCopy>>_vars)

\* ------------------------------------------------------------------------
\* fixConfluenceLinks run twice: the page maps and the files of a finished
\* traversal, the steps of fixConfluenceLinks, and the second call
\* ------------------------------------------------------------------------
\* the README.md of the page of a page-map entry
PageFile(pageInfo) == PathJoin(<<OutputDir, pageInfo.path, "README.md">>)

\* a completed page map of one page and one of a page with a child
FixPageMaps ==
  {<<[id |-> "1", title |-> "A B", path |-> "a-b/", slug |-> "a-b", children |-> <<>>]>>,
   <<[id |-> "1", title |-> "A B", path |-> "a-b/", slug |-> "a-b", children |-> <<"2">>],
     [id |-> "2", title |-> "P2", path |-> "a-b/p2/", slug |-> "p2", children |-> <<>>]>>}

\* pieces of the text of a code block: a bracket, a word, placeholder links
\* to a page of the map and to a page outside it, the ends of such links,
\* and a link to the Confluence URL of page 2
FixChunks ==
  {"[", "x ", "[x](CONFLUENCE_LINK:a-b)", "[x](CONFLUENCE_LINK:zz)",
   "](CONFLUENCE_LINK:a-b)", "](CONFLUENCE_LINK:zz)",
   "[y](http://h/wiki/spaces/K/pages/2/t)"}

RECURSIVE FixTextsOf(_)
FixTextsOf(n) ==
  IF n = 0 THEN {""}
  ELSE FixTextsOf(n - 1) \cup {t \o c : t \in FixTextsOf(n - 1), c \in FixChunks}

\* the README.md of a page whose body is a code block of the text, which
\* processPage emits as it is
CodePage(pageTitle, text) ==
  frontmatter(pageTitle) \o FENCE \o "\n" \o text \o "\n" \o FENCE

\* the files of a page map: the root's code block is any of the texts, the
\* child has no link or a placeholder link to the root
FixFilesOf(map) ==
  {[p \in {PageFile(map[k]) : k \in 1..Len(map)} |->
      IF p = PageFile(map[1]) THEN CodePage(map[1].title, text)
      ELSE CodePage(map[2].title, childText)] :
     text \in FixTextsOf(MaxFixChunks),
     childText \in {"", "[x](CONFLUENCE_LINK:a-b)"}}

\* migrate() is about to call fixConfluenceLinks
InitFix ==
  /\ ProtectIdle
  /\ NormalizeIdle
  /\ UtilityIdle
  /\ CopyIdle
  /\ FixIdle
  /\ config = [key \in {RequiredKeys[k] : k \in 1..Len(RequiredKeys)} |-> TRUE]
  /\ site = [n |-> 1, parent |-> <<>>, title |-> <<"A B">>, linker |-> 1, body |-> ""]
  /\ pc = "fixLinks"
  /\ stack = <<>>
  /\ pageMap \in FixPageMaps
  /\ files \in FixFilesOf(pageMap)
  /\ dirs = {OutputDir, PathJoin(<<OutputDir, ".vuepress">>)}
  /\ slugToPath = NoFiles
  /\ pageIdToPath = NoFiles
  /\ fixIndex = 0
  /\ error = ""
  /\ called = {pageMap[k].id : k \in 1..Len(pageMap)}
  /\ emitted = NoFiles

\* fixConfluenceLinks has returned and is called a second time
RunFixAgain ==
  /\ pc = MigrateNext("fixLinks")
  /\ fixRuns = 0
  /\ fixRuns' = 1
  /\ pc' = "fixLinks"
  /\ fixIndex' = 0
  /\ UNCHANGED <<site, config, stack, pageMap, files, dirs, slugToPath,
                 pageIdToPath, error, called, emitted>>
  /\ UNCHANGED <<protectVars, normalizeVars, utilityVars, copyVars>>

NextFix ==
  \/ BuildLinkMaps
  \/ FixFile
  \/ FinishFixLinks
  \/ RunFixAgain

SpecFix == InitFix /\ [][NextFix]_vars

\* ------------------------------------------------------------------------
\* Claims about the Text-Protection steps (SpecProtect)
\* ------------------------------------------------------------------------
Returned == tpStep = "done" /\ run = 1

\* the fenced code blocks of the Markdown before the steps
CodeBlocksOf(md) == Range(CodeBlocksIn(md))

\* C1: when the Text-Protection steps return, every fenced code block of
\* the Markdown they were given occurs in the returned string, character
\* for character.
C1_CodeBlocksByteIdentical ==
  Returned => \A b \in CodeBlocksOf(input) : Contains(markdown, b)

\* the position of the </table> that closes the table opened before j,
\* counting nested tables; 0 when the table is never closed
RECURSIVE MatchingClose(_, _, _)
MatchingClose(s, j, depth) ==
  IF j > Len(s) THEN 0
  ELSE IF AtCI(s, j, "</table>")
       THEN IF depth = 1 THEN j + 7 ELSE MatchingClose(s, j + 8, depth - 1)
  ELSE IF AtCI(s, j, "<table") THEN MatchingClose(s, j + 6, depth + 1)
  ELSE MatchingClose(s, j + 1, depth)

MatchingTableEnd(s, j) ==
  IF AtCI(s, j, "<table") THEN MatchingClose(s, j + 6, 1) ELSE 0

\* the literal tables of the Markdown, each from <table to its matching
\* </table>, found left to right from position j
RECURSIVE TablesFrom(_, _)
TablesFrom(md, j) ==
  IF j > Len(md) THEN {}
  ELSE LET e == MatchingTableEnd(md, j)
       IN IF e > 0 THEN {Sub(md, j, e)} \cup TablesFrom(md, e + 1)
          ELSE TablesFrom(md, j + 1)

TablesOf(md) == TablesFrom(md, 1)

\* C2: when the Text-Protection steps return, every literal HTML table of
\* the Markdown they were given, from its opening tag through its matching
\* closing tag, occurs in the returned string, character for character.
C2_TablesByteIdentical ==
  Returned => \A t \in TablesOf(input) : Contains(markdown, t)

\* C3: applying the Text-Protection steps to their own output returns that
\* output unchanged.
C3_Idempotent ==
  (tpStep = "done" /\ run = 2) => markdown = firstOutput

\* an opening or closing tag whose name is in the plain-HTML list
IsPlainTag(t) ==
  /\ Len(t) >= 3
  /\ Ch(t, 1) = "<"
  /\ Ch(t, Len(t)) = ">"
  /\ IndexOf(t, ">", 1) = Len(t)
  /\ \E name \in htmlTagNames :
       \/ ToLowerCase(t) = "</" \o name \o ">"
       \/ ToLowerCase(t) = "<" \o name \o ">"
       \/ /\ ToLowerCase(Sub(t, 1, Len(name) + 1)) = "<" \o name
          /\ IsSpace(Ch(t, Len(name) + 2))

\* <Identifier>: a capital letter followed by letters only
IsCapitalizedIdentifier(t) ==
  /\ Len(t) >= 3
  /\ Ch(t, 1) = "<"
  /\ Ch(t, Len(t)) = ">"
  /\ IsUpper(Ch(t, 2))
  /\ AllLetters(Sub(t, 2, Len(t) - 1))

\* <Identifier> whose identifier ends in one of the listed suffix words
IsSuffixIdentifier(t) ==
  /\ IsCapitalizedIdentifier(t)
  /\ \E suffix \in VueSuffixes : EndsWith(Sub(t, 2, Len(t) - 1), suffix)

\* C4 as stated: the only angle-bracket substrings ever wrapped in an
\* inline-code span are plain-HTML tags and identifiers ending in a listed
\* suffix word.
C4_OnlyListedSuffixes ==
  \A t \in wrapped : IsPlainTag(t) \/ IsSuffixIdentifier(t)

\* C4 amended: the only angle-bracket substrings ever wrapped in an
\* inline-code span are plain-HTML tags and bare identifiers made of a
\* capital letter followed by letters, with or without a listed suffix.
C4_OnlyTagsAndIdentifiers ==
  \A t \in wrapped : IsPlainTag(t) \/ IsCapitalizedIdentifier(t)

\* C4 witness: the steps returned after wrapping an identifier without a
\* listed suffix, a suffix identifier and a plain tag
C4_Witness ==
  /\ Returned
  /\ "<Foo>" \in wrapped
  /\ "<Type>" \in wrapped
  /\ "<p>" \in wrapped

\* ------------------------------------------------------------------------
\* Claims about migrate() (Spec)
\* ------------------------------------------------------------------------
\* fixConfluenceLinks has just returned
LinksFixed == pc = "config"

\* the end of the Markdown link that carries the placeholder of slug
Placeholder(slug) == "](CONFLUENCE_LINK:" \o slug \o ")"

\* '../' once per non-empty segment of sourcePath, the non-empty segments of
\* targetPath joined by '/', then '/'
DepthFormula(sourcePath, targetPath) ==
  Repeat("../", Len(SelectSeq(Split(sourcePath, 1), IsNonEmpty)))
    \o Join(SelectSeq(Split(targetPath, 1), IsNonEmpty)) \o "/"

\* page-map entry k links, by its placeholder, to the page of a later entry j
ForwardLink(k, j) ==
  /\ k < j
  /\ pageMap[j].slug # ""
  /\ PageFile(pageMap[k]) \in DOMAIN emitted
  /\ Contains(emitted[PageFile(pageMap[k])], Placeholder(pageMap[j].slug))

\* C5: fixConfluenceLinks runs only once processPage(root) and all its
\* recursive calls have returned and every page processPage was called with
\* is in the page map; until then no file holds a rewritten link; and a
\* placeholder whose target was recorded after its source page is replaced
\* by the relative link to the page its slug maps to.
C5_FixAfterTraversal ==
  /\ (fixIndex > 0) =>
       /\ stack = <<>>
       /\ RootPageId \in called
       /\ \A id \in called : MapHas(pageMap, id)
  /\ (fixIndex = 0) => \A p \in DOMAIN files : ~Contains(files[p], "](../")
  /\ LinksFixed =>
       \A k \in 1..Len(pageMap), j \in 1..Len(pageMap) :
         ForwardLink(k, j) =>
           /\ ~Contains(files[PageFile(pageMap[k])], Placeholder(pageMap[j].slug))
           /\ Contains(files[PageFile(pageMap[k])],
                       "](" \o DepthFormula(pageMap[k].path, slugToPath[pageMap[j].slug]) \o ")")

\* C5 witness: the links are fixed and a page linked to a page that was
\* recorded after it
C5_Witness ==
  /\ LinksFixed
  /\ \E k \in 1..Len(pageMap), j \in 1..Len(pageMap) : ForwardLink(k, j)

\* the call has normalized its page
Normalized(call) == call.step \notin {"fetchPage", "ensureDir", "convert"}

C7_ResolvedOrDemoted ==
  LinksFixed =>
    /\ error = ""
    /\ \A p \in DOMAIN emitted :
         /\ ~Contains(files[p], "CONFLUENCE_LINK:")
         /\ \A t \in LinkTargets :
              Contains(emitted[p], Placeholder(slugify(t))) =>
                IF slugify(t) \in DOMAIN slugToPath
                THEN Count(files[p], "](../") > 0
                ELSE Count(files[p], "](") < Count(emitted[p], "](")

LegacyUrl(id, kind) ==
  IF kind = "spaceUrl" THEN "http://h/wiki/spaces/K/pages/" \o id \o "/t"
  ELSE "/wiki/pages/viewpage.action?pageId=" \o id

LegacyKinds == {"spaceUrl", "viewPage"}

\* the file of page-map entry k held, after phase 1, a link to that URL
LegacyLinkIn(k, id, kind) ==
  Contains(emitted[PageFile(pageMap[k])], "[z](" \o LegacyUrl(id, kind) \o ")")

\* C9: when fixConfluenceLinks has returned, a Markdown link to a legacy
\* absolute URL of page id has been replaced by the link to the relative
\* path of that page (same depth formula) if id is a key of the page map,
\* and is still in the file, as it was, if id is not.
C9_LegacyUrls ==
  LinksFixed =>
    \A k \in 1..Len(pageMap), id \in LegacyTargets, kind \in LegacyKinds :
      LegacyLinkIn(k, id, kind) =>
        IF MapHas(pageMap, id)
        THEN /\ ~Contains(files[PageFile(pageMap[k])], LegacyUrl(id, kind))
             /\ Contains(files[PageFile(pageMap[k])],
                         "[z](" \o DepthFormula(pageMap[k].path, MapGet(pageMap, id).path) \o ")")
        ELSE /\ Contains(files[PageFile(pageMap[k])], "[z](" \o LegacyUrl(id, kind) \o ")")
             /\ Count(files[PageFile(pageMap[k])], "[z](")
                  = Count(emitted[PageFile(pageMap[k])], "[z](")

\* C9 witness: one file held a link to the URL of a migrated page and a link
\* to the URL of a page that was not migrated, and was rewritten
C9_Witness ==
  /\ LinksFixed
  /\ \E k \in 1..Len(pageMap) :
       /\ LegacyLinkIn(k, RootPageId, "spaceUrl")
       /\ LegacyLinkIn(k, ForeignId, "viewPage")
       /\ files[PageFile(pageMap[k])] # emitted[PageFile(pageMap[k])]

\* C10: when fixConfluenceLinks has returned, for every migrated page with
\* title T, a vendor link with page-reference title T in the body of a
\* migrated page has become, in that page's file, the relative link to a
\* migrated page with title T.
C10_RoundTrip ==
  LinksFixed =>
    \A j \in 1..Len(pageMap), k \in 1..Len(pageMap) :
      (/\ pageMap[k].id = PageIdOf(site.linker)
       /\ Contains(site.body, "ri:content-title=\"" \o pageMap[j].title \o "\""))
        => \E m \in 1..Len(pageMap) :
             /\ pageMap[m].title = pageMap[j].title
             /\ Contains(files[PageFile(pageMap[k])],
                         "](" \o DepthFormula(pageMap[k].path, pageMap[m].path) \o ")")

\* the pending call k has recorded the children before index next, in the
\* order of childPages, and has started no later child
ChildrenInOrder(call) ==
  /\ MapHas(pageMap, call.pageId)
  /\ MapGet(pageMap, call.pageId).children
       = [n \in 1..(call.next - 1) |-> call.childPages[n].id]
  /\ \A n \in 1..Len(call.childPages) :
       /\ n < call.next =>
            /\ MapHas(pageMap, call.childPages[n].id)
            /\ \A q \in 1..Len(stack) : stack[q].pageId # call.childPages[n].id
       /\ n > call.next => call.childPages[n].id \notin called
  /\ \A m, n \in 1..Len(call.childPages) :
       m < n => call.childPages[m].position <= call.childPages[n].position
  /\ \A m, n \in 1..Len(call.childPages) :
       (m < n /\ call.childPages[m].position = NoPosition)
         => call.childPages[n].position = NoPosition

\* C11: the traversal is a sequential pre-order walk.  Only the innermost
\* call of processPage is running; every outer call waits in its loop over
\* the children for the child that is the next call on the stack, after it
\* wrote its own file and recorded itself in the page map; a call has
\* recorded the children before the current one, in the order fetchChildPages
\* returned them (ascending position, pages without a position last), each of
\* them finished, and no later sibling has been started.
C11_SequentialPreOrder ==
  \A k \in 1..Len(stack) :
    /\ (k < Len(stack)) =>
         /\ stack[k].step = "children"
         /\ stack[k].next <= Len(stack[k].childPages)
         /\ stack[k + 1].pageId = stack[k].childPages[stack[k].next].id
         /\ stack[k + 1].parentPath = PathJoin(<<stack[k].parentPath, stack[k].pageSlug>>)
         /\ PageFile(MapGet(pageMap, stack[k].pageId)) \in DOMAIN files
    /\ (stack[k].step = "children") => ChildrenInOrder(stack[k])
    /\ (stack[k].step \in {"fetchPage", "ensureDir", "convert", "write", "record"})
         => ~MapHas(pageMap, stack[k].pageId)

\* C11 witness: the root, whose two children the API listed against their
\* positions, has finished the child of the lower position and waits for the
\* child without a position, which is writing its file
C11_Witness ==
  /\ Len(stack) = 2
  /\ stack[1].childPages
       = <<[id |-> "3", position |-> 1], [id |-> "2", position |-> NoPosition]>>
  /\ stack[1].next = 2
  /\ stack[2].pageId = "2"
  /\ stack[2].step = "write"
  /\ MapGet(pageMap, RootPageId).children = <<"3">>

\* ------------------------------------------------------------------------
\* Claims on the normalizer, under SpecNormalize
\* ------------------------------------------------------------------------
\* the document is made of constructs of this kind
MadeOf(kind) ==
  /\ Len(constructs) >= 1
  /\ \A k \in 1..Len(constructs) : constructs[k] \in kind

\* preprocessConfluenceHtml has returned, html is what it returned
NormalizerReturned == nzStep = "turndown"

\* the conversions of the constructs of the document, each converted as a
\* document of its own, one after the other
EachOnItsOwn ==
  Concat([k \in 1..Len(constructs) |->
            preprocessConfluenceHtml(constructs[k], PageSlugOfDocument, attachments)])

\* C12: no rule matches past the closing tag of the construct it starts in.
\* A document of two or more adjacent image blocks, panels, code macros or
\* page links is converted to the conversions of its constructs, one after
\* the other: none is merged with, or swallowed into, a neighbour.
C12_NoCrossing ==
  (/\ NormalizerReturned
   /\ Len(constructs) >= 2
   /\ \E kind \in {ImageBlocks, Panels, CodeMacros, PageLinks} : MadeOf(kind))
    => html = EachOnItsOwn

\* the text of s between the first open and the close that follows it
Between(s, open, close) ==
  Sub(s, IndexOf(s, open, 1) + Len(open),
      IndexOf(s, close, IndexOf(s, open, 1) + Len(open)) - 1)

\* the language parameter a code macro carries, "" when it carries none
OwnLanguage(macro) ==
  IF Contains(macro, "<ac:parameter ac:name=\"language\">")
  THEN Between(macro, "<ac:parameter ac:name=\"language\">", "</ac:parameter>")
  ELSE ""

\* the CDATA body of a code macro
OwnBody(macro) == Between(macro, CDataOpen, CDataClose)

\* both code rules have run
CodeRulesDone == nzStep = "residualMacros"

\* C13: after the two code rules, every code macro of the document is the
\* block <pre><code class="language-L"> of its own CDATA body, L being its
\* own language parameter when it carries one and empty only when it carries
\* none; no macro is given the language of another.
C13_OwnLanguage ==
  (CodeRulesDone /\ MadeOf(CodeMacros))
    => html = Concat([k \in 1..Len(constructs) |->
                        convertCodeBlock(OwnBody(constructs[k]), OwnLanguage(constructs[k]))])

\* the body emitted inside <pre><code class="..."> ... </code></pre>
EmittedBody(block) == Between(block, "\">", "</code></pre>")

\* the entities of the rule decoded once, from left to right
RECURSIVE DecodeEntities(_)
DecodeEntities(s) ==
  IF s = "" THEN ""
  ELSE IF At(s, 1, "&amp;") THEN "&" \o DecodeEntities(Sub(s, 6, Len(s)))
  ELSE IF At(s, 1, "&lt;") THEN "<" \o DecodeEntities(Sub(s, 5, Len(s)))
  ELSE IF At(s, 1, "&gt;") THEN ">" \o DecodeEntities(Sub(s, 5, Len(s)))
  ELSE Head(s) \o DecodeEntities(Tail(s))

\* every & of s begins &amp; &lt; or &gt;
AmpersandsAreEntities(s) ==
  \A k \in 1..Len(s) :
    Ch(s, k) = "&" => (At(s, k, "&amp;") \/ At(s, k, "&lt;") \/ At(s, k, "&gt;"))

\* the code macro with this body in the document is converted
CodeMacroConverted ==
  CodeRulesDone /\ Len(constructs) = 1 /\ MadeOf(CodeMacros)

ResidualRulesDone == nzStep = "tables"

\* C15: after the residual-macro rules, a document of well-formed macros and
\* macro parameters holds no opening or closing tag of a structured macro
\* and no macro-parameter tag, nested macros included, and the image tags
\* that were inside the macros are still there, in their original order.
C15_ResidualMacrosGone ==
  (ResidualRulesDone /\ MadeOf(OtherMacros)) =>
    /\ ~Contains(html, "<ac:structured-macro")
    /\ ~Contains(html, "</ac:structured-macro>")
    /\ ~Contains(html, "<ac:parameter")
    /\ ImgTags(html) = ImgTags(doc)

\* a panel is a structured macro or an editor panel div
IsMacroPanel(panel) == At(panel, 1, "<ac:structured-macro")

\* the type of a panel as written: the macro name, or the panel-type attribute
PanelTypeOf(panel) ==
  IF IsMacroPanel(panel) THEN Between(panel, "ac:name=\"", "\"")
  ELSE Between(panel, "data-panel-type=\"", "\"")

\* the content of a panel: its rich-text body, or its content div
PanelContentOf(panel) ==
  IF IsMacroPanel(panel) THEN Between(panel, "<ac:rich-text-body>", "</ac:rich-text-body>")
  ELSE Between(panel, "ak-editor-panel__content\">", "</div>")

HasPanelContent(panel) ==
  IsMacroPanel(panel) => Contains(panel, "<ac:rich-text-body>")

\* the upper-cased type for info, note, warning and tip, the type as written
\* for any other
PanelLabel(type) == IF type \in PanelNames THEN ToUpperCase(type) ELSE type

\* both panel rules have run
PanelRulesDone == nzStep = "codeWithLanguage"

\* C16: a panel of either dialect, with a type and a content, is converted
\* to <blockquote>**LABEL:** content</blockquote>, LABEL being the type in
\* upper case when the type is info, note, warning or tip, and the type
\* exactly as written for any other type.
C16_PanelLabels ==
  (/\ PanelRulesDone
   /\ Len(constructs) = 1
   /\ MadeOf(Panels)
   /\ PanelTypeOf(constructs[1]) # ""
   /\ HasPanelContent(constructs[1]))
    => html = "<blockquote>**" \o PanelLabel(PanelTypeOf(constructs[1])) \o ":** "
                \o PanelContentOf(constructs[1]) \o "</blockquote>"

\* a row of header cells only
IsHeaderRow(row) == Contains(row, "<th>") /\ ~Contains(row, "<td>")

\* the number of rows of the leading run of header rows
RECURSIVE LeadingHeaderRows(_)
LeadingHeaderRows(rows) ==
  IF rows = <<>> \/ ~IsHeaderRow(Head(rows)) THEN 0
  ELSE 1 + LeadingHeaderRows(Tail(rows))

\* the table whose first n rows are in a thead ahead of the tbody
WithHeader(rows, n) ==
  IF n = 0 THEN TableOf(Concat(rows))
  ELSE "<table><thead>" \o Concat(SubSeq(rows, 1, n)) \o "</thead><tbody>"
         \o Concat(SubSeq(rows, n + 1, Len(rows))) \o "</tbody></table>"

\* the table rules have run
TableRulesDone == nzStep = "pageLinks"

\* C17: the rows moved into the synthesized <thead> ahead of <tbody> are
\* exactly the leading run of rows made of header cells only: every row of
\* the run is moved, a row with a data cell is not, and a header row after
\* a row that is not one stays in the body.
C17_LeadingHeaderRun ==
  (TableRulesDone /\ Len(constructs) = 1) =>
    \A rows \in TableRows :
      constructs[1] = TableOf(Concat(rows))
        => html = WithHeader(rows, LeadingHeaderRows(rows))

\* the page title of a vendor page link
OwnTitle(link) == Between(link, "ri:content-title=\"", "\"")

\* the text the link is to show: the content of its rich body when it has
\* one, else the content of its plain-text body when it has one, else the
\* page title
OwnLinkText(link) ==
  IF Contains(link, "<ac:link-body>")
  THEN Between(link, "<ac:link-body>", "</ac:link-body>")
  ELSE IF Contains(link, "<ac:plain-text-link-body>")
  THEN Between(link, "<ac:plain-text-link-body><![CDATA[", "]]></ac:plain-text-link-body>")
  ELSE OwnTitle(link)

\* C18: a vendor page link becomes the anchor whose href is the placeholder
\* of its own page title and whose text is the content of its rich link
\* body if it has one, whatever the content, else that of its plain-text
\* body if it has one, else the page title.
C18_LinkTextPriority ==
  (NormalizerReturned /\ Len(constructs) = 1 /\ MadeOf(PageLinks)) =>
    html = "<a href=\"CONFLUENCE_LINK:" \o linkSlug(OwnTitle(constructs[1])) \o "\">"
             \o OwnLinkText(constructs[1]) \o "</a>"

\* the file-reference id of a blob image
OwnFileId(image) == Between(image, "data-fileid=\"", "\"")

\* the attachment records of the page that carry this fileId
RecordsOf(fileId) ==
  {k \in 1..Len(attachments) : attachments[k].fileId = fileId}

\* the blob image rule has run
BlobRuleDone == nzStep = "decorations"

\* C19: a blob image is rewritten to the local path of an attachment only
\* when a record of the page carries its file-reference id; for every id
\* that no record carries, whatever the id and also when there is no
\* record at all, the tag is left exactly as it was.
C19_OnlyKnownFileIds ==
  (BlobRuleDone /\ Len(constructs) = 1 /\ MadeOf(BlobImages)) =>
    IF RecordsOf(OwnFileId(doc)) = {}
    THEN html = doc
    ELSE \E k \in RecordsOf(OwnFileId(doc)) :
           html = ImgTag(attachments[k].path, AltOf(doc))

\* the openings the rules of preprocessConfluenceHtml look for
RuleOpenings ==
  {"<img", "<svg", "<span", "<button", "<div", "<ac:", "<ri:", "<col",
   "<table", "<tbody", "<tr", "<th", "<td", "</p>"}

\* no rule of preprocessConfluenceHtml has anything to match in the fragment
NoRuleMatches(fragment) ==
  \A opening \in RuleOpenings : ~Contains(fragment, opening)

\* convertToMarkdown has returned, output is what it returned
MarkdownReturned == nzStep = "returned"

IsSlug(s) ==
  /\ Len(s) > 0
  /\ \A k \in 1..Len(s) : IsLower(Ch(s, k)) \/ IsDigit(Ch(s, k)) \/ Ch(s, k) = "-"
  /\ Ch(s, 1) # "-"
  /\ Ch(s, Len(s)) # "-"
  /\ ~Contains(s, "--")

\* slugify has been called on the text and on its own result
Slugified == utStep \in {"sanitize", "done"}

\* C21: for every text t, slugify(t) is the empty string or matches
\* ^[a-z0-9]+(-[a-z0-9]+)*$ (no leading, trailing or doubled hyphen), and
\* slugify(slugify(t)) = slugify(t).
C21_SlugShape ==
  /\ (utStep # "slugify") => (utSlug = "" \/ IsSlug(utSlug))
  /\ Slugified => utReslug = utSlug

\* C21 witness: a text with a capital, hyphens at both ends and a run of
\* two characters that are not letters or digits was slugified twice
C21_Witness ==
  /\ Slugified
  /\ utText = "-A "
  /\ utSlug = "a"
  /\ utReslug = "a"

\* the characters of s that are neither forbidden, nor whitespace, nor _
RECURSIVE KeptChars(_)
KeptChars(s) ==
  IF s = "" THEN ""
  ELSE (IF Head(s) \in UnsafeChars \/ IsSpace(Head(s)) \/ Head(s) = "_"
        THEN "" ELSE Head(s)) \o KeptChars(Tail(s))

\* the number of forbidden characters of s
UnsafeCount(s) == Cardinality({k \in 1..Len(s) : Ch(s, k) \in UnsafeChars})

\* the number of maximal runs of whitespace of s
SpaceRunCount(s) ==
  Cardinality({k \in 1..Len(s) : IsSpace(Ch(s, k)) /\ ~IsSpace(Ch(s, k - 1))})

\* sanitizeFilename has been called on the text
Sanitized == utStep = "done"

\* C22: the result of sanitizeFilename holds none of the characters
\* < > : " / \ | ? * and no whitespace; every forbidden character has
\* become one _ and every run of whitespace one _, and the other characters
\* are as they were.
C22_NoForbiddenChars ==
  Sanitized =>
    /\ \A k \in 1..Len(utFilename) :
         Ch(utFilename, k) \notin UnsafeChars /\ ~IsSpace(Ch(utFilename, k))
    /\ KeptChars(utFilename) = KeptChars(utText)
    /\ Count(utFilename, "_")
         = Count(utText, "_") + UnsafeCount(utText) + SpaceRunCount(utText)

\* C22 witness: a file name with a forbidden character next to a run of
\* two whitespace characters was sanitized
C22_Witness ==
  /\ Sanitized
  /\ utText = ": \t"
  /\ utFilename = "__"

\* ------------------------------------------------------------------------
\* Further claims about migrate() (Spec)
\* ------------------------------------------------------------------------
\* some required key of the configuration is unset
ConfigInvalid == \E k \in 1..Len(RequiredKeys) : ~config[RequiredKeys[k]]

MissingPrefix == "Missing required configuration: "

\* validateConfig has returned or thrown
Validated == pc # "validateConfig"

\* C23: validateConfig throws 'Missing required configuration: ...', naming
\* every unset key and no other, exactly when one of confluenceUrl,
\* rootPageId, email, apiToken is unset; migrate() calls it first, so a run
\* with an invalid configuration is rejected before any directory is
\* created, any page fetched or any file written.
C23_ConfigGate ==
  /\ (pc = "validateConfig") =>
       (dirs = {} /\ files = NoFiles /\ called = {} /\ stack = <<>>)
  /\ (Validated /\ ConfigInvalid) =>
       /\ pc = "rejected"
       /\ Sub(error, 1, Len(MissingPrefix)) = MissingPrefix
       /\ \A k \in 1..Len(RequiredKeys) :
            Contains(error, RequiredKeys[k]) <=> ~config[RequiredKeys[k]]
       /\ dirs = {}
       /\ files = NoFiles
       /\ called = {}
       /\ stack = <<>>
       /\ pageMap = <<>>
  /\ (Validated /\ ~ConfigInvalid) => Sub(error, 1, Len(MissingPrefix)) # MissingPrefix

\* C23 witness: migrate() was rejected for a configuration without
\* rootPageId and apiToken
C23_Witness ==
  /\ pc = "rejected"
  /\ error = "Missing required configuration: rootPageId, apiToken"
  /\ dirs = {}

\* the parent, on the site, of the page of a page-map entry other than the
\* root
ParentOnSite(pageInfo) == PageIdOf(site.parent[PageIndex(pageInfo.id)])

\* the entries that are there stay where they are, with their id and path
EntriesKept ==
  /\ Len(pageMap') >= Len(pageMap)
  /\ \A k \in 1..Len(pageMap) :
       /\ pageMap'[k].id = pageMap[k].id
       /\ pageMap'[k].path = pageMap[k].path

\* one entry per page id
WrittenOnce ==
  \A k, m \in 1..Len(pageMap) : pageMap[k].id = pageMap[m].id => k = m

\* the entry of a page comes after the entry of its parent
ParentFirst ==
  \A k \in 1..Len(pageMap) :
    pageMap[k].id # RootPageId =>
      /\ MapHas(pageMap, ParentOnSite(pageMap[k]))
      /\ MapIndex(pageMap, ParentOnSite(pageMap[k])) < k

\* the children of an entry are keys of the map, children of the page on
\* the site, in the order in which they were processed
ChildrenAreKeys ==
  \A k \in 1..Len(pageMap) :
    /\ \A n \in 1..Len(pageMap[k].children) :
         /\ MapHas(pageMap, pageMap[k].children[n])
         /\ ParentOnSite(MapGet(pageMap, pageMap[k].children[n])) = pageMap[k].id
    /\ \A m, n \in 1..Len(pageMap[k].children) :
         m < n => MapIndex(pageMap, pageMap[k].children[m])
                    < MapIndex(pageMap, pageMap[k].children[n])

\* the path of the entry of a child is the path of its parent, the slug of
\* the child and '/'
ChildPathExtendsParent(pageInfo) ==
  pageInfo.path
    = MapGet(pageMap, ParentOnSite(pageInfo)).path \o pageInfo.slug \o "/"

ChildPaths ==
  \A k \in 1..Len(pageMap) :
    (pageMap[k].id # RootPageId /\ MapHas(pageMap, ParentOnSite(pageMap[k])))
      => ChildPathExtendsParent(pageMap[k])

\* C27: during the traversal the page map is consistent: an entry is
\* written once per page id and its path never changes; the entry of a page
\* exists before that of any descendant; every id of a children list is a
\* key of the map, in processing order; the path of a child is the path of
\* its parent followed by the slug of the child and '/'.
C27_PageMapConsistent ==
  /\ [](WrittenOnce /\ ParentFirst /\ ChildrenAreKeys /\ ChildPaths)
  /\ [][EntriesKept]_vars

\* the traversal has returned to migrate()
TraversalDone == pc \in {"fixLinks", "config", "styles", "homepage", "packageJson", "done"}

\* C28: after the traversal two distinct page ids of the page map never have
\* the same path, whatever the titles: no README.md of a page is that of
\* another page.
C28_OwnLocation ==
  TraversalDone =>
    \A k, m \in 1..Len(pageMap) :
      pageMap[k].id # pageMap[m].id =>
        /\ pageMap[k].path # pageMap[m].path
        /\ PageFile(pageMap[k]) # PageFile(pageMap[m])

\* migrate() was rejected with the error of a request
RejectedByRequest == pc = "rejected" /\ error = "Request failed"

\* what is there when a request has rejected migrate(): the pages recorded
\* and the one page whose request failed are all the pages processPage was
\* called with, the files are the README.md of the pages recorded, and
\* fixConfluenceLinks has not begun
StoppedAtFailure ==
  RejectedByRequest =>
    /\ stack = <<>>
    /\ Cardinality(called) = Len(pageMap) + 1
    /\ \A k \in 1..Len(pageMap) : pageMap[k].id \in called
    /\ DOMAIN files = {PageFile(pageMap[k]) : k \in 1..Len(pageMap)}
    /\ fixIndex = 0
    /\ slugToPath = NoFiles
    /\ pageIdToPath = NoFiles

\* a step of the traversal rejects migrate() only from fetchPage, leaving
\* the files and the page map as they are; no step follows a rejection
RejectsOnlyAtFetchPage ==
  /\ pc # "rejected"
  /\ (pc = "processPage" /\ pc' = "rejected") =>
       /\ Top.step = "fetchPage"
       /\ error' = "Request failed"
       /\ files' = files
       /\ pageMap' = pageMap
       /\ called' = called
  /\ (pc = "processPage" /\ stack # <<>> /\ Top.step # "fetchPage") => pc' # "rejected"

LoopEnded == tpStep = "restoreTables"

\* C24: the escape loop ends at a fixed point within its bound of three
\* iterations: the text it leaves is unchanged by one more application of
\* the opening-tag and the closing-tag wrapping.
C24_LoopFixedPoint ==
  LoopEnded =>
    /\ i <= EscapePasses
    /\ escapeClosingTags(escapeOpeningTags(markdown)) = markdown

\* C24 witness: the loop ended after an iteration that wrapped two adjacent
\* tags
C24_Witness ==
  /\ LoopEnded
  /\ i = 1
  /\ Contains(markdown, BT \o "<p>" \o BT \o BT \o "</p>" \o BT)

\* pat replaced at its first occurrence by exactly the text repl
ExactReplaceFirst(s, pat, repl) ==
  IF IndexOf(s, pat, 1) = 0 THEN s
  ELSE Sub(s, 1, IndexOf(s, pat, 1) - 1) \o repl
         \o Sub(s, IndexOf(s, pat, 1) + Len(pat), Len(s))

\* the code-block tokens of a span replaced by exactly their blocks
RECURSIVE WithCodeBlocks(_, _, _)
WithCodeBlocks(span, blocks, k) ==
  IF k > Len(blocks) THEN span
  ELSE WithCodeBlocks(ExactReplaceFirst(span, CodeBlockToken(k - 1), blocks[k]), blocks, k + 1)

\* the Text-Protection steps have returned, in either application
ProtectionReturned == tpStep = "done"

\* C25: when the Text-Protection steps return, no token they introduced is
\* left in the text, every extracted code block stands in the text exactly
\* as it was extracted, and every extracted table stands in the text as it
\* was extracted, with the code-block tokens it held replaced by their code
\* blocks.
C25_TokensRestored ==
  ProtectionReturned =>
    /\ \A k \in 1..Len(tablePlaceholders) :
         /\ ~Contains(markdown, TableToken(k - 1))
         /\ Contains(markdown, WithCodeBlocks(tablePlaceholders[k], codeBlockPlaceholders, 1))
    /\ \A k \in 1..Len(codeBlockPlaceholders) :
         /\ ~Contains(markdown, CodeBlockToken(k - 1))
         /\ Contains(markdown, codeBlockPlaceholders[k])

\* ------------------------------------------------------------------------
\* Claims about copyMissingAttachments (FairSpecCopy)
\* ------------------------------------------------------------------------
\* the places the search looks at for one search path, in the order of the
\* search; the folders of a directory that cannot be read are left out
SearchOrderAt(path, filename) ==
  <<ParentFilePath(path, filename)>>
    \o (IF PathJoin(<<OutputDir, path>>) \in cmUnreadable THEN <<>>
        ELSE [k \in 1..Len(ListedFolders(path, cmParentPath)) |->
                SiblingFilePath(path, ListedFolders(path, cmParentPath)[k], filename)])

\* the places of the whole search over the search paths given
RECURSIVE SearchOrder(_, _)
SearchOrder(paths, filename) ==
  IF paths = <<>> THEN <<>>
  ELSE SearchOrderAt(Head(paths), filename) \o SearchOrder(Tail(paths), filename)

\* the positions of the search order at which a copy of the file is; the
\* page's own directory is among the places and is left out, the search
\* runs only when the file is not there
CopiesInOrder(order, local) ==
  {k \in 1..Len(order) : order[k] \in cmDisk /\ order[k] # local}

IsPrefix(s, t) == Len(s) <= Len(t) /\ SubSeq(t, 1, Len(s)) = s

\* the outcome of a reference is the one the search order gives; local is
\* the place of the file in the page's own directory
OutcomeInOrder(o, order, local) ==
  /\ o.outcome = "copied" =>
       /\ CopiesInOrder(order, local) # {}
       /\ o.from = order[Min(CopiesInOrder(order, local))]
       /\ local \in cmDisk
  /\ o.outcome = "missing" =>
       /\ CopiesInOrder(order, local) = {}
       /\ local \notin cmDisk
  /\ o.outcome = "exists" => local \in cmDisk

CopySearchSafe ==
  /\ \A paths \in {SearchPaths(cmParentPath)} :
       /\ IsPrefix(cmVisited, paths)
       /\ \A k \in 1..Len(cmOutcomes) :
            /\ cmOutcomes[k].filename = cmMatches[k]
            /\ \A order \in {SearchOrder(paths, cmMatches[k])} :
                 \A local \in {LocalPath(AttachmentDirOf(cmParentPath), cmMatches[k])} :
                   OutcomeInOrder(cmOutcomes[k], order, local)
  /\ cmThrown => (cmIndex = 0 /\ cmOutcomes = <<>>)
  /\ cmStep = "returned" => Len(cmOutcomes) = Len(cmMatches)

InSecondRun == fixRuns = 1 /\ fixIndex >= 1

\* the entry whose file the loop fixes next is written again
RewritesNext ==
  /\ pc = "fixLinks"
  /\ fixIndex \in 1..Len(pageMap)
  /\ PageFile(pageMap[fixIndex]) \in DOMAIN files
  /\ Modified(files[PageFile(pageMap[fixIndex])],
              [slugToPath |-> slugToPath, pageIdToPath |-> pageIdToPath,
               path |-> pageMap[fixIndex].path])

\* C30: fixConfluenceLinks is idempotent: a second run over the files of a
\* first run leaves the content of every file as it is and writes no file.
C30_SecondRunChangesNothing ==
  InSecondRun => (files = emitted /\ ~RewritesNext)

====
